---- MODULE Spec2Model ----
(***************************************************************************)
(* State-machine model of the virtual file system of the OS simulator      *)
(* (src/src/services/VirtualFileSystem.js): the tree of nodes, the cursor  *)
(* currentPath, the blob kept under the localStorage key                   *)
(* 'virtualFileSystem', and the public operations with their auto-save     *)
(* wrapper; and of its process manager                                     *)
(* (src/src/services/ProcessManager.js): the process list, killProcess,    *)
(* createProcess and the scheduler that a timer runs every second.         *)
(*                                                                         *)
(* Representation of JavaScript values                                     *)
(*  - a path string is the list of the pieces between its '/' characters,  *)
(*    i.e. the value of s.split('/'): '/' is <<"", "">>, '~' is <<"~">>,   *)
(*    '/tmp/a' is <<"", "tmp", "a">>, 'a/' is <<"a", "">>.  The value      *)
(*    undefined, where a path string is expected, is <<>> (no string       *)
(*    splits into zero pieces).  The only piece beginning with '~' that    *)
(*    the inputs use is "~" itself.                                        *)
(*  - file content and permission strings are sequences of characters.     *)
(*  - an object is a function from its property names to their values; a   *)
(*    property the object does not have is outside the function's domain.  *)
(*  - a reference to a node of the tree is the list of child names that    *)
(*    leads to it from the root.                                           *)
(*  - a timestamp is [k |-> "Date", ms |-> n] for a Date object and        *)
(*    [k |-> "string", ms |-> n] for the ISO-8601 text of the same         *)
(*    instant, the form JSON gives it.                                     *)
(***************************************************************************)
EXTENDS Integers, Sequences, FiniteSets, TLC

VARIABLES
  fileSystem,   \* this.fileSystem: the object { '/': <root node> }
  currentPath,  \* this.currentPath: the cursor, a path string
  storage,      \* the localStorage item 'virtualFileSystem'
  clock,        \* the last instant the system clock was read at
  sync,         \* how the stored item relates to this engine's successful calls
  last,         \* the last engine call: its arguments and its result
  processes,    \* this.processes of the process manager: the process list
  nextPid,      \* this.nextPid
  schedulerInterval,  \* this.schedulerInterval: the timer, or null
  stats,        \* this.stats: the counters totalCreated and totalKilled
  uptime        \* this.uptime, in seconds, of which only the parity is kept

fsVars == <<fileSystem, currentPath, storage, clock, sync, last>>

pmVars == <<processes, nextPid, schedulerInterval, stats, uptime>>

vars == <<fileSystem, currentPath, storage, clock, sync, last,
          processes, nextPid, schedulerInterval, stats, uptime>>

---------------------------------------------------------------------------
(* Bounds *)

\* Instants are 0..MaxClock; a read of the clock at the last instant returns it again.
MaxClock == 1

\* The longest run of '..' that is tried
MaxDots == 3

\* createProcess is called at most MaxCreated times.
MaxCreated == 1

---------------------------------------------------------------------------
(* Strings *)

Undefined == <<>>

Has(obj, key) == key \in DOMAIN obj

\* path.startsWith('/')
startsWithSlash(path) == Len(path) >= 2 /\ path[1] = ""

\* path.endsWith('/')
endsWithSlash(path) == Len(path) >= 2 /\ path[Len(path)] = ""

\* path === '~' || path.startsWith('~/') ; also path.startsWith('~') for the pieces in use
startsWithTilde(path) == Len(path) >= 1 /\ path[1] = "~"

\* path.replace('~', '/home/user') for a path whose first character is '~'
replaceTilde(path) == <<"", "home", "user">> \o Tail(path)

\* s.split('/').filter(c => c !== '')
splitNonEmpty(path) == SelectSeq(path, LAMBDA c : c # "")

\* '/' + components.join('/')
slashJoin(components) == IF components = <<>> THEN <<"", "">> ELSE <<"">> \o components

Pop(s) == SubSeq(s, 1, Len(s) - 1)

rwDashRDashRDash == <<"r", "w", "-", "r", "-", "-", "r", "-", "-">>

rwxRxRx == <<"r", "w", "x", "r", "-", "x", "r", "-", "x">>

drwxRxRx == <<"d">> \o rwxRxRx

\* 75 characters
WelcomeText ==
  <<"W", "e", "l", "c", "o", "m", "e", " ", "t", "o", " ", "t", "h", "e", " ", "V", "i", "r", "t",
    "u", "a", "l", " ", "O", "S", " ", "S", "i", "m", "u", "l", "a", "t", "o", "r", "!", "\n", "T",
    "y", "p", "e", " ", "\"", "h", "e", "l", "p", "\"", " ", "t", "o", " ", "s", "e", "e", " ",
    "a", "v", "a", "i", "l", "a", "b", "l", "e", " ", "c", "o", "m", "m", "a", "n", "d", "s", ".">>

LsText ==
  <<"#", "!", "/", "b", "i", "n", "/", "b", "a", "s", "h", "\n", "#", " ", "l", "s", " ", "b", "i",
    "n", "a", "r", "y">>

MkdirText ==
  <<"#", "!", "/", "b", "i", "n", "/", "b", "a", "s", "h", "\n", "#", " ", "m", "k", "d", "i", "r",
    " ", "b", "i", "n", "a", "r", "y">>

RmText ==
  <<"#", "!", "/", "b", "i", "n", "/", "b", "a", "s", "h", "\n", "#", " ", "r", "m", " ", "b", "i",
    "n", "a", "r", "y">>

PasswdText ==
  <<"r", "o", "o", "t", ":", "x", ":", "0", ":", "0", ":", "r", "o", "o", "t", ":", "/", "r", "o",
    "o", "t", ":", "/", "b", "i", "n", "/", "b", "a", "s", "h", "\n", "u", "s", "e", "r", ":", "x",
    ":", "1", "0", "0", "0", ":", "1", "0", "0", "0", ":", "u", "s", "e", "r", ":", "/", "h", "o",
    "m", "e", "/", "u", "s", "e", "r", ":", "/", "b", "i", "n", "/", "b", "a", "s", "h">>

HostnameText ==
  <<"v", "i", "r", "t", "u", "a", "l", "-", "o", "s">>

---------------------------------------------------------------------------
(* Timestamps *)

Date(ms) == [k |-> "Date", ms |-> ms]

\* Date.prototype.toJSON: the ISO-8601 text of the instant
IsoString(ms) == [k |-> "string", ms |-> ms]

\* new Date(value), for a Date or for ISO-8601 text
NewDate(value) == Date(value.ms)

\* The instants a read of the system clock may return: time does not run backwards.
Readings(t) == {t} \cup {u \in {t + 1} : u <= MaxClock}

---------------------------------------------------------------------------
(* Path resolution *)

\* joinLoop that passes over '..' as it passes over '.'
RECURSIVE joinLoopSkippingDotDot(_, _, _)
joinLoopSkippingDotDot(result, components, i) ==
  IF i > Len(components) THEN result
  ELSE LET component == components[i] IN
       IF component = "" \/ component = "." \/ component = ".."
       THEN joinLoopSkippingDotDot(result, components, i + 1)
       ELSE joinLoopSkippingDotDot(IF endsWithSlash(result)
                                   THEN Pop(result) \o <<component>>
                                   ELSE result \o <<component>>,
                                   components, i + 1)

RECURSIVE joinLoop(_, _, _)
joinLoop(result, components, i) ==
  IF i > Len(components) THEN result
  ELSE LET component == components[i] IN
       IF component = "" \/ component = "."
       THEN joinLoop(result, components, i + 1)
       ELSE IF component = ".."
       THEN joinLoop(slashJoin(Pop(splitNonEmpty(result))), components, i + 1)
       ELSE joinLoop(IF endsWithSlash(result)
                     THEN Pop(result) \o <<component>>
                     ELSE result \o <<component>>,
                     components, i + 1)

\* With basePath undefined the code either returns undefined or throws a
\* TypeError; every caller turns both into the same failed result, and the
\* model returns Undefined for both.
_joinPaths(basePath, relativePath) ==
  IF basePath = Undefined THEN Undefined
  ELSE IF relativePath = <<".">> THEN basePath
  ELSE joinLoop(basePath, relativePath, 1)

\* _parsePath that joins every path, absolute or not, to the cursor
_parsePathAlwaysJoins(cwd, path) ==
  LET p1 == IF path = <<"~">> \/ (Len(path) >= 2 /\ path[1] = "~")
            THEN replaceTilde(path) ELSE path
      absolutePath == _joinPaths(cwd, p1)
  IN IF path = Undefined \/ absolutePath = Undefined
     THEN [threw |-> TRUE, components |-> <<>>]
     ELSE [threw |-> FALSE, components |-> splitNonEmpty(absolutePath)]

\* [threw |-> TRUE] stands for the TypeError of path.startsWith or
\* absolutePath.split on undefined.
_parsePath(cwd, path) ==
  LET p1 == IF path = <<"~">> \/ (Len(path) >= 2 /\ path[1] = "~")
            THEN replaceTilde(path) ELSE path
      absolutePath == IF ~startsWithSlash(p1) THEN _joinPaths(cwd, p1) ELSE p1
  IN IF path = Undefined \/ absolutePath = Undefined
     THEN [threw |-> TRUE, components |-> <<>>]
     ELSE [threw |-> FALSE, components |-> splitNonEmpty(absolutePath)]

---------------------------------------------------------------------------
(* The tree *)

\* The value of an expression that evaluates to undefined where a node is expected.
UndefinedNode == [type |-> "undefined"]

RootOf(fs) == IF Has(fs, "/") THEN fs["/"] ELSE UndefinedNode

IsDirectory(node) == node.type = "directory"

\* node.children[name], for a node that is a directory
Child(node, name) == IF Has(node.children, name) THEN node.children[name] ELSE UndefinedNode

\* The node that the chain of children `components` leads to from `node`.
RECURSIVE Descend(_, _)
Descend(node, components) ==
  IF components = <<>> THEN node
  ELSE IF ~IsDirectory(node) THEN UndefinedNode
  ELSE Descend(Child(node, Head(components)), Tail(components))

NodeAt(fs, components) == Descend(RootOf(fs), components)

\* PutChild that, for the basename of the root, puts the child in the place
\* of the node itself
RECURSIVE PutChildOrReplaceNode(_, _, _, _)
PutChildOrReplaceNode(node, components, name, child) ==
  IF components = <<>>
  THEN IF name = "undefined" THEN child
       ELSE [node EXCEPT !.children = (name :> child) @@ @]
  ELSE [node EXCEPT !.children[Head(components)] =
                       PutChildOrReplaceNode(@, Tail(components), name, child)]

\* parent.children[name] = child, where parent is the directory at `components`
RECURSIVE PutChild(_, _, _, _)
PutChild(node, components, name, child) ==
  IF components = <<>>
  THEN [node EXCEPT !.children = (name :> child) @@ @]
  ELSE [node EXCEPT !.children[Head(components)] =
                       PutChild(@, Tail(components), name, child)]

\* DeleteChild with the parent's whole children map dropped
RECURSIVE DeleteAllChildren(_, _, _)
DeleteAllChildren(node, components, name) ==
  IF components = <<>>
  THEN [node EXCEPT !.children = <<>>]
  ELSE [node EXCEPT !.children[Head(components)] =
                       DeleteAllChildren(@, Tail(components), name)]

\* delete parent.children[name], where parent is the directory at `components`
RECURSIVE DeleteChild(_, _, _)
DeleteChild(node, components, name) ==
  IF components = <<>>
  THEN [node EXCEPT !.children = [c \in DOMAIN @ \ {name} |-> @[c]]]
  ELSE [node EXCEPT !.children[Head(components)] =
                       DeleteChild(@, Tail(components), name)]

\* node.permissions = permissions, where node is the node at `components`
RECURSIVE SetPermissions(_, _, _)
SetPermissions(node, components, permissions) ==
  IF components = <<>>
  THEN IF Has(node, "permissions")
       THEN [node EXCEPT !.permissions = permissions]
       ELSE node @@ [permissions |-> permissions]
  ELSE [node EXCEPT !.children[Head(components)] =
                       SetPermissions(@, Tail(components), permissions)]

\* The component lists of all nodes below `node`, each prefixed by `prefix`.
RECURSIVE PathsBelow(_, _)
PathsBelow(node, prefix) ==
  IF ~IsDirectory(node) THEN {}
  ELSE UNION {{prefix \o <<c>>} \cup PathsBelow(node.children[c], prefix \o <<c>>)
              : c \in DOMAIN node.children}

\* The component lists of all nodes of the tree, the root being <<>>.
AllPaths(fs) == IF Has(fs, "/") THEN {<<>>} \cup PathsBelow(fs["/"], <<>>) ELSE {}

IsPrefix(p, q) == Len(p) <= Len(q) /\ SubSeq(q, 1, Len(p)) = p

---------------------------------------------------------------------------
(* The bootstrap tree *)

EmptyDirectory == [type |-> "directory", children |-> <<>>]

SeedFile(content, permissions) ==
  [type |-> "file", content |-> content, permissions |-> permissions]

BootstrapRoot(created, modified) ==
  [type |-> "directory",
   children |->
     [home |-> [type |-> "directory",
                children |->
                  [user |-> [type |-> "directory",
                             children |->
                               ("Documents" :> EmptyDirectory) @@
                               ("Pictures" :> EmptyDirectory) @@
                               ("welcome.txt" :>
                                  [type |-> "file", content |-> WelcomeText,
                                   permissions |-> rwDashRDashRDash, size |-> 72,
                                   created |-> Date(created),
                                   modified |-> Date(modified)])]]],
      bin |-> [type |-> "directory",
               children |-> [ls |-> SeedFile(LsText, rwxRxRx),
                             mkdir |-> SeedFile(MkdirText, rwxRxRx),
                             rm |-> SeedFile(RmText, rwxRxRx)]],
      etc |-> [type |-> "directory",
               children |-> [passwd |-> SeedFile(PasswdText, rwDashRDashRDash),
                             hostname |-> SeedFile(HostnameText, rwDashRDashRDash)]],
      tmp |-> EmptyDirectory]]

BootstrapFileSystem(created, modified) == ("/" :> BootstrapRoot(created, modified))

HomeUser == <<"", "home", "user">>

---------------------------------------------------------------------------
(* Lookup *)

\* { success: false, error }; the error is the fixed part of the message,
\* "TypeError" for the message of a caught TypeError.
Failure(error) == [success |-> FALSE, error |-> error]

RECURSIVE walk(_, _, _)
walk(current, components, i) ==
  IF i > Len(components) THEN [success |-> TRUE, at |-> components, node |-> current]
  ELSE IF current = UndefinedNode THEN Failure("TypeError")
  ELSE IF current.type # "directory" THEN Failure("is not a directory")
  ELSE IF ~Has(current.children, components[i]) THEN Failure("does not exist")
  ELSE walk(current.children[components[i]], components, i + 1)

_getNodeAtPath(fs, cwd, path) ==
  IF path = <<"", "">> THEN [success |-> TRUE, at |-> <<>>, node |-> RootOf(fs)]
  ELSE LET parsed == _parsePath(cwd, path) IN
       IF parsed.threw THEN Failure("TypeError")
       ELSE walk(RootOf(fs), parsed.components, 1)

RECURSIVE walkToParent(_, _, _)
walkToParent(parent, components, i) ==
  IF i > Len(components) THEN [success |-> TRUE, node |-> parent]
  ELSE IF parent = UndefinedNode THEN Failure("TypeError")
  ELSE IF ~Has(parent.children, components[i])
          \/ parent.children[components[i]].type # "directory"
       THEN Failure("Directory does not exist")
  ELSE walkToParent(parent.children[components[i]], components, i + 1)

\* components.pop() of an empty list is undefined, and as a property key
\* undefined is the name 'undefined'.
_getParentAndBasename(fs, cwd, path) ==
  LET parsed == _parsePath(cwd, path) IN
  IF parsed.threw THEN Failure("TypeError")
  ELSE LET all == parsed.components
           basename == IF all = <<>> THEN "undefined" ELSE all[Len(all)]
           components == IF all = <<>> THEN <<>> ELSE Pop(all)
           found == walkToParent(RootOf(fs), components, 1)
       IN IF ~found.success THEN found
          ELSE [success |-> TRUE, parent |-> components, parentNode |-> found.node,
                basename |-> basename]

---------------------------------------------------------------------------
(* Operations: each maps the engine's state and its arguments to the       *)
(* result it returns and the state it leaves.                              *)

Outcome(result, fs, cwd) == [result |-> result, fileSystem |-> fs, currentPath |-> cwd]

Fail(error, fs, cwd) == Outcome(Failure(error), fs, cwd)

Ok(fs, cwd) == Outcome([success |-> TRUE], fs, cwd)

WithRoot(fs, root) == ("/" :> root) @@ fs

\* changeDirectory that refuses '..' at the root
changeDirectoryUpFailsAtRoot(fs, cwd, path) ==
  IF path = <<"", "">> THEN Ok(fs, <<"", "">>)
  ELSE IF path = <<"~">> THEN Ok(fs, HomeUser)
  ELSE IF path = <<"..">>
  THEN IF cwd = Undefined THEN Fail("TypeError", fs, cwd)
       ELSE LET components == splitNonEmpty(cwd) IN
            IF Len(components) > 0 THEN Ok(fs, slashJoin(Pop(components)))
            ELSE Fail("Already at the root", fs, cwd)
  ELSE LET targetPath == IF ~startsWithSlash(path) /\ ~startsWithTilde(path)
                         THEN _joinPaths(cwd, path)
                         ELSE IF startsWithTilde(path) THEN replaceTilde(path)
                         ELSE path
           nodeResult == _getNodeAtPath(fs, cwd, targetPath)
       IN IF ~nodeResult.success THEN Outcome(nodeResult, fs, cwd)
          ELSE IF nodeResult.node = UndefinedNode THEN Fail("TypeError", fs, cwd)
          ELSE IF nodeResult.node.type # "directory" THEN Fail("is not a directory", fs, cwd)
          ELSE Ok(fs, targetPath)

changeDirectory(fs, cwd, path) ==
  IF path = <<"", "">> THEN Ok(fs, <<"", "">>)
  ELSE IF path = <<"~">> THEN Ok(fs, HomeUser)
  ELSE IF path = <<"..">>
  THEN IF cwd = Undefined THEN Fail("TypeError", fs, cwd)
       ELSE LET components == splitNonEmpty(cwd) IN
            IF Len(components) > 0 THEN Ok(fs, slashJoin(Pop(components)))
            ELSE Ok(fs, cwd)
  ELSE LET targetPath == IF ~startsWithSlash(path) /\ ~startsWithTilde(path)
                         THEN _joinPaths(cwd, path)
                         ELSE IF startsWithTilde(path) THEN replaceTilde(path)
                         ELSE path
           nodeResult == _getNodeAtPath(fs, cwd, targetPath)
       IN IF ~nodeResult.success THEN Outcome(nodeResult, fs, cwd)
          ELSE IF nodeResult.node = UndefinedNode THEN Fail("TypeError", fs, cwd)
          ELSE IF nodeResult.node.type # "directory" THEN Fail("is not a directory", fs, cwd)
          ELSE Ok(fs, targetPath)

\* makeDirectory that refuses only an existing directory
makeDirectoryOverFile(fs, cwd, path, now) ==
  LET r == _getParentAndBasename(fs, cwd, path) IN
  IF ~r.success THEN Outcome(r, fs, cwd)
  ELSE IF r.parentNode = UndefinedNode THEN Fail("TypeError", fs, cwd)
  ELSE IF r.parentNode.type # "directory" THEN Fail("parent is not a directory", fs, cwd)
  ELSE IF /\ Has(r.parentNode.children, r.basename)
          /\ r.parentNode.children[r.basename].type = "directory"
  THEN Fail("File exists", fs, cwd)
  ELSE Ok(WithRoot(fs, PutChild(fs["/"], r.parent, r.basename,
                                [type |-> "directory", children |-> <<>>,
                                 permissions |-> drwxRxRx, size |-> 0,
                                 created |-> Date(now), modified |-> Date(now)])),
          cwd)

makeDirectory(fs, cwd, path, now) ==
  LET r == _getParentAndBasename(fs, cwd, path) IN
  IF ~r.success THEN Outcome(r, fs, cwd)
  ELSE IF r.parentNode = UndefinedNode THEN Fail("TypeError", fs, cwd)
  ELSE IF r.parentNode.type # "directory" THEN Fail("parent is not a directory", fs, cwd)
  ELSE IF Has(r.parentNode.children, r.basename) THEN Fail("File exists", fs, cwd)
  ELSE Ok(WithRoot(fs, PutChild(fs["/"], r.parent, r.basename,
                                [type |-> "directory", children |-> <<>>,
                                 permissions |-> drwxRxRx, size |-> 0,
                                 created |-> Date(now), modified |-> Date(now)])),
          cwd)

createFile(fs, cwd, path, content, now) ==
  LET r == _getParentAndBasename(fs, cwd, path) IN
  IF ~r.success THEN Outcome(r, fs, cwd)
  ELSE IF r.parentNode = UndefinedNode THEN Fail("TypeError", fs, cwd)
  ELSE IF r.parentNode.type # "directory" THEN Fail("parent is not a directory", fs, cwd)
  ELSE LET fileExists == Has(r.parentNode.children, r.basename)
           old == Child(r.parentNode, r.basename)
       IN Ok(WithRoot(fs, PutChild(fs["/"], r.parent, r.basename,
                                   [type |-> "file", content |-> content,
                                    permissions |-> rwDashRDashRDash,
                                    size |-> Len(content),
                                    created |-> IF fileExists /\ Has(old, "created")
                                                THEN old.created ELSE Date(now),
                                    modified |-> Date(now)])),
             cwd)

\* writeFile that gives every file it writes the default permissions
writeFileDefaultPermissions(fs, cwd, path, content, now1, now2) ==
  LET r == _getParentAndBasename(fs, cwd, path) IN
  IF ~r.success THEN Outcome(r, fs, cwd)
  ELSE IF r.parentNode = UndefinedNode THEN Fail("TypeError", fs, cwd)
  ELSE LET old == Child(r.parentNode, r.basename)
           fileExists == Has(r.parentNode.children, r.basename) /\ old.type = "file"
           node == [type |-> "file", content |-> content,
                    permissions |-> rwDashRDashRDash,
                    size |-> Len(content),
                    modified |-> Date(now2)]
           created == IF fileExists
                      THEN (IF Has(old, "created") THEN [created |-> old.created] ELSE <<>>)
                      ELSE [created |-> Date(now1)]
       IN Ok(WithRoot(fs, PutChild(fs["/"], r.parent, r.basename, node @@ created)), cwd)

\* created: undefined leaves the node without a created timestamp.
writeFile(fs, cwd, path, content, now1, now2) ==
  LET r == _getParentAndBasename(fs, cwd, path) IN
  IF ~r.success THEN Outcome(r, fs, cwd)
  ELSE IF r.parentNode = UndefinedNode THEN Fail("TypeError", fs, cwd)
  ELSE LET old == Child(r.parentNode, r.basename)
           fileExists == Has(r.parentNode.children, r.basename) /\ old.type = "file"
           node == [type |-> "file", content |-> content,
                    permissions |-> IF fileExists THEN old.permissions ELSE rwDashRDashRDash,
                    size |-> Len(content),
                    modified |-> Date(now2)]
           created == IF fileExists
                      THEN (IF Has(old, "created") THEN [created |-> old.created] ELSE <<>>)
                      ELSE [created |-> Date(now1)]
       IN Ok(WithRoot(fs, PutChild(fs["/"], r.parent, r.basename, node @@ created)), cwd)

\* remove without the check for a non-empty directory
removeWithoutEmptinessCheck(fs, cwd, path, recursive) ==
  LET r == _getParentAndBasename(fs, cwd, path) IN
  IF ~r.success THEN Outcome(r, fs, cwd)
  ELSE IF r.parentNode = UndefinedNode THEN Fail("TypeError", fs, cwd)
  ELSE IF ~Has(r.parentNode.children, r.basename)
  THEN Fail("No such file or directory", fs, cwd)
  ELSE Ok(WithRoot(fs, DeleteChild(fs["/"], r.parent, r.basename)), cwd)

remove(fs, cwd, path, recursive) ==
  LET r == _getParentAndBasename(fs, cwd, path) IN
  IF ~r.success THEN Outcome(r, fs, cwd)
  ELSE IF r.parentNode = UndefinedNode THEN Fail("TypeError", fs, cwd)
  ELSE IF ~Has(r.parentNode.children, r.basename)
  THEN Fail("No such file or directory", fs, cwd)
  ELSE IF /\ r.parentNode.children[r.basename].type = "directory"
          /\ ~recursive
          /\ DOMAIN r.parentNode.children[r.basename].children # {}
  THEN Fail("Directory not empty", fs, cwd)
  ELSE Ok(WithRoot(fs, DeleteChild(fs["/"], r.parent, r.basename)), cwd)

\* parseInt(permissions, 8) for a string of decimal digits: the value of its
\* longest prefix of octal digits, NaN when that prefix is empty.
NaN == -1

DigitValue(c) ==
  CASE c = "0" -> 0 [] c = "1" -> 1 [] c = "2" -> 2 [] c = "3" -> 3 [] c = "4" -> 4
    [] c = "5" -> 5 [] c = "6" -> 6 [] c = "7" -> 7 [] c = "8" -> 8 [] c = "9" -> 9
    [] OTHER -> -1

RECURSIVE parseOctalPrefix(_, _, _)
parseOctalPrefix(s, i, acc) ==
  IF i > Len(s) \/ DigitValue(s[i]) > 7 THEN acc
  ELSE parseOctalPrefix(s, i + 1, acc * 8 + DigitValue(s[i]))

parseInt8(s) == IF DigitValue(s[1]) > 7 THEN NaN ELSE parseOctalPrefix(s, 1, 0)

\* perms & mask, for a mask with one bit set; NaN & mask is 0
BitSet(perms, mask) == perms # NaN /\ (perms \div mask) % 2 = 1

\* /^\d+$/.test(permissions)
isDigits(s) == Len(s) >= 1 /\ \A i \in 1..Len(s) : DigitValue(s[i]) >= 0

\* /^[rwx-]{9}$/.test(permissions)
isSymbolic(s) == Len(s) = 9 /\ \A i \in 1..9 : s[i] \in {"r", "w", "x", "-"}

\* rwxGroup with the three bits tested in the opposite order
rwxGroupReversed(perms, r, w, x) ==
  <<IF BitSet(perms, x) THEN "r" ELSE "-",
    IF BitSet(perms, w) THEN "w" ELSE "-",
    IF BitSet(perms, r) THEN "x" ELSE "-">>

rwxGroup(perms, r, w, x) ==
  <<IF BitSet(perms, r) THEN "r" ELSE "-",
    IF BitSet(perms, w) THEN "w" ELSE "-",
    IF BitSet(perms, x) THEN "x" ELSE "-">>

\* changePermissions that assigns a symbolic mode before it validates it
changePermissionsAssigningFirst(fs, cwd, path, permissions) ==
  LET nodeResult == _getNodeAtPath(fs, cwd, path) IN
  IF ~nodeResult.success THEN Outcome(nodeResult, fs, cwd)
  ELSE IF isDigits(permissions)
  THEN LET perms == parseInt8(permissions)
           symbolic == rwxGroup(perms, 256, 128, 64) \o rwxGroup(perms, 32, 16, 8)
                       \o rwxGroup(perms, 4, 2, 1)
       IN IF nodeResult.node = UndefinedNode THEN Fail("TypeError", fs, cwd)
          ELSE Ok(WithRoot(fs, SetPermissions(fs["/"], nodeResult.at, symbolic)), cwd)
  ELSE IF nodeResult.node = UndefinedNode THEN Fail("TypeError", fs, cwd)
  ELSE IF ~isSymbolic(permissions)
  THEN Fail("Invalid permission format",
            WithRoot(fs, SetPermissions(fs["/"], nodeResult.at, permissions)), cwd)
  ELSE Ok(WithRoot(fs, SetPermissions(fs["/"], nodeResult.at, permissions)), cwd)

changePermissions(fs, cwd, path, permissions) ==
  LET nodeResult == _getNodeAtPath(fs, cwd, path) IN
  IF ~nodeResult.success THEN Outcome(nodeResult, fs, cwd)
  ELSE IF isDigits(permissions)
  THEN LET perms == parseInt8(permissions)
           symbolic == rwxGroup(perms, 256, 128, 64) \o rwxGroup(perms, 32, 16, 8)
                       \o rwxGroup(perms, 4, 2, 1)
       IN IF nodeResult.node = UndefinedNode THEN Fail("TypeError", fs, cwd)
          ELSE Ok(WithRoot(fs, SetPermissions(fs["/"], nodeResult.at, symbolic)), cwd)
  ELSE IF ~isSymbolic(permissions) THEN Fail("Invalid permission format", fs, cwd)
  ELSE IF nodeResult.node = UndefinedNode THEN Fail("TypeError", fs, cwd)
  ELSE Ok(WithRoot(fs, SetPermissions(fs["/"], nodeResult.at, permissions)), cwd)

readFile(fs, cwd, path) ==
  LET nodeResult == _getNodeAtPath(fs, cwd, path) IN
  IF ~nodeResult.success THEN nodeResult
  ELSE IF nodeResult.node = UndefinedNode THEN Failure("TypeError")
  ELSE IF nodeResult.node.type # "file" THEN Failure("is not a file")
  ELSE [success |-> TRUE, content |-> nodeResult.node.content]

\* '-rw-r--r--', the permissions listDirectory reports for a file that has none
dashRwDashRDashRDash == <<"-">> \o rwDashRDashRDash

\* value || fallback, for a property that holds a string or is absent
OrElse(obj, key, fallback) ==
  IF Has(obj, key) /\ obj[key] # <<>> THEN obj[key] ELSE fallback

\* The files array is modelled as the map from each entry's name to the
\* entry; every new Date() of one call returns the reading `now`.
listDirectory(fs, cwd, path, now) ==
  LET targetPath == IF path = <<".">> THEN cwd ELSE path
      nodeResult == _getNodeAtPath(fs, cwd, targetPath)
  IN IF ~nodeResult.success THEN nodeResult
     ELSE IF nodeResult.node = UndefinedNode THEN Failure("TypeError")
     ELSE IF nodeResult.node.type # "directory" THEN Failure("is not a directory")
     ELSE [success |-> TRUE,
           files |-> [name \in DOMAIN nodeResult.node.children |->
                        LET item == nodeResult.node.children[name] IN
                        [name |-> name,
                         type |-> item.type,
                         permissions |-> OrElse(item, "permissions",
                                                IF item.type = "directory"
                                                THEN drwxRxRx ELSE dashRwDashRDashRDash),
                         size |-> IF Has(item, "size") THEN item.size ELSE 0,
                         modified |-> IF Has(item, "modified") THEN item.modified
                                      ELSE Date(now)]]]

\* details.name is absent where basename is undefined: for a path that
\* resolves to the root.
getFileDetails(fs, cwd, path, now) ==
  LET nodeResult == _getNodeAtPath(fs, cwd, path)
      node == nodeResult.node
      parsed == _parsePath(cwd, path)
      r == _getParentAndBasename(fs, cwd, path)
  IN IF ~nodeResult.success THEN nodeResult
     ELSE IF node = UndefinedNode THEN Failure("TypeError")
     ELSE [success |-> TRUE,
           details |->
             (IF r.success /\ parsed.components # <<>>
              THEN [name |-> r.basename] ELSE <<>>) @@
             [type |-> node.type,
              permissions |-> OrElse(node, "permissions", rwxRxRx),
              size |-> IF Has(node, "size") THEN node.size ELSE 0,
              created |-> IF Has(node, "created") THEN node.created ELSE Date(now),
              modified |-> IF Has(node, "modified") THEN node.modified ELSE Date(now),
              isDirectory |-> node.type = "directory"]]

\* The characters of an entry name.
Chars(name) ==
  CASE name = "home" -> <<"h", "o", "m", "e">>
    [] name = "user" -> <<"u", "s", "e", "r">>
    [] name = "Documents" -> <<"D", "o", "c", "u", "m", "e", "n", "t", "s">>
    [] name = "Pictures" -> <<"P", "i", "c", "t", "u", "r", "e", "s">>
    [] name = "welcome.txt" -> <<"w", "e", "l", "c", "o", "m", "e", ".", "t", "x", "t">>
    [] name = "bin" -> <<"b", "i", "n">>
    [] name = "ls" -> <<"l", "s">>
    [] name = "mkdir" -> <<"m", "k", "d", "i", "r">>
    [] name = "rm" -> <<"r", "m">>
    [] name = "etc" -> <<"e", "t", "c">>
    [] name = "passwd" -> <<"p", "a", "s", "s", "w", "d">>
    [] name = "hostname" -> <<"h", "o", "s", "t", "n", "a", "m", "e">>
    [] name = "tmp" -> <<"t", "m", "p">>
    [] name = "a" -> <<"a">>
    [] name = "b" -> <<"b">>
    [] name = "undefined" -> <<"u", "n", "d", "e", "f", "i", "n", "e", "d">>

\* pattern.replace(/\*/g, '.*').replace(/\?/g, '.'): the regular expression
\* source, as a sequence of tokens.  A '.' of the pattern is copied as it is
\* and so is the same token as the '.' that replaces a '?'.
patternSource(pattern) ==
  [i \in 1..Len(pattern) |->
     IF pattern[i] = "*" THEN ".*"
     ELSE IF pattern[i] = "?" THEN "."
     ELSE pattern[i]]

\* new RegExp('^' + source + '$').test(name), for a source whose tokens are
\* '.*', '.' and characters that stand for themselves in a regular expression
RECURSIVE regexTest(_, _, _, _)
regexTest(source, i, chars, j) ==
  IF i > Len(source) THEN j > Len(chars)
  ELSE IF source[i] = ".*"
  THEN \E k \in j..(Len(chars) + 1) : regexTest(source, i + 1, chars, k)
  ELSE /\ j <= Len(chars)
       /\ (source[i] = "." \/ source[i] = chars[j])
       /\ regexTest(source, i + 1, chars, j + 1)

\* findMatchingFiles(node, currentPath): the item paths it pushes; `base`
\* is its parameter currentPath
RECURSIVE findMatchingFiles(_, _, _)
findMatchingFiles(node, base, source) ==
  UNION {LET item == node.children[name]
             itemPath == IF base = <<"", "">> THEN <<"", name>>
                         ELSE base \o <<name>>
         IN (IF regexTest(source, 1, Chars(name), 1) THEN {itemPath} ELSE {})
            \cup (IF item.type = "directory"
                  THEN findMatchingFiles(item, itemPath, source) ELSE {})
         : name \in DOMAIN node.children}

\* The matches array is modelled as the set of its elements.
findFiles(fs, cwd, startDir, pattern) ==
  LET startDirResult == _getNodeAtPath(fs, cwd, startDir) IN
  IF ~startDirResult.success THEN startDirResult
  ELSE IF startDirResult.node = UndefinedNode THEN Failure("TypeError")
  ELSE IF startDirResult.node.type # "directory" THEN Failure("is not a directory")
  ELSE [success |-> TRUE,
        files |-> findMatchingFiles(startDirResult.node, startDir,
                                    patternSource(pattern))]

fileExists(fs, cwd, path) ==
  [success |-> TRUE, exists |-> _getNodeAtPath(fs, cwd, path).success]

getCurrentDirectory(cwd) == [success |-> TRUE, path |-> cwd]

\* The command 'mv source destination': readFile, then createFile, then
\* remove, each on the engine as the call before left it.  `saves` lists the
\* outcomes of the wrapped calls that succeeded, in order: each is followed
\* by a save.  Each call's result is bound once, as the set of that one
\* result, for the next call to take its fields from.
handleMv(fs, cwd, source, destination, now) ==
  CHOOSE out \in
    UNION {
      IF ~readResult.success
      THEN {[result |-> Failure("cannot stat"), fileSystem |-> fs, currentPath |-> cwd,
             saves |-> <<>>]}
      ELSE UNION {
             IF ~written.result.success
             THEN {[result |-> Failure("cannot create regular file"),
                    fileSystem |-> written.fileSystem,
                    currentPath |-> written.currentPath, saves |-> <<>>]}
             ELSE {IF ~removed.result.success
                   THEN [result |-> Failure("cannot remove"),
                         fileSystem |-> removed.fileSystem,
                         currentPath |-> removed.currentPath, saves |-> <<written>>]
                   ELSE [result |-> [success |-> TRUE],
                         fileSystem |-> removed.fileSystem,
                         currentPath |-> removed.currentPath,
                         saves |-> <<written, removed>>] :
                   removed \in {remove(written.fileSystem, written.currentPath,
                                       source, FALSE)}} :
             written \in {createFile(fs, cwd, destination, readResult.content, now)}} :
      readResult \in {readFile(fs, cwd, source)}} : TRUE

---------------------------------------------------------------------------
(* Persistence *)

\* A serialization of a Date that keeps the date and drops the time of day
StringifiedDateOnly(value) == IF value.k = "Date" THEN IsoString(0) ELSE value

\* JSON.stringify of a timestamp: Date.prototype.toJSON for a Date, the text itself for text
Stringified(value) == IF value.k = "Date" THEN IsoString(value.ms) ELSE value

\* JSON.parse(JSON.stringify(object)): what the JSON text of an object of the
\* tree holds, at every depth
RECURSIVE toJSON(_)
toJSON(node) ==
  [key \in DOMAIN node |->
     IF key \in {"created", "modified"} THEN Stringified(node[key])
     ELSE IF key = "children" THEN [c \in DOMAIN node.children |-> toJSON(node.children[c])]
     ELSE node[key]]

\* The stored item: [kind |-> "absent"] when getItem returns null, otherwise
\* the kind of JSON text it is, with the parsed object for an object.
Absent == [kind |-> "absent"]

JsonObject(data) == [kind |-> "object", data |-> data]

\* The item that _saveToLocalStorage stores; an undefined currentPath is
\* left out of the JSON text.
_saveToLocalStorage(fs, cwd) ==
  JsonObject([fileSystem |-> [key \in DOMAIN fs |-> toJSON(fs[key])]]
             @@ (IF cwd = Undefined THEN <<>> ELSE [currentPath |-> cwd]))

RECURSIVE _restoreDates(_)
_restoreDates(node) ==
  LET n1 == IF Has(node, "created") THEN [node EXCEPT !.created = NewDate(@)] ELSE node
      n2 == IF Has(n1, "modified") THEN [n1 EXCEPT !.modified = NewDate(@)] ELSE n1
  IN IF Has(n2, "type") /\ n2.type = "directory" /\ Has(n2, "children")
     THEN [n2 EXCEPT !.children = [c \in DOMAIN @ |-> _restoreDates(@[c])]]
     ELSE n2

\* null, or the parsed data with _restoreDates applied to parsedData.fileSystem
Null == [loaded |-> FALSE]

_loadFromLocalStorage(stored) ==
  IF stored.kind = "absent" THEN Null               \* !savedData
  ELSE IF stored.kind = "unparseable" THEN Null     \* JSON.parse throws
  ELSE IF stored.kind # "object" THEN Null          \* null.fileSystem, or _restoreDates(undefined), throws
  ELSE IF ~Has(stored.data, "fileSystem") THEN Null \* _restoreDates(undefined) throws
  ELSE [loaded |-> TRUE,
        fileSystem |-> _restoreDates(stored.data.fileSystem),
        currentPath |-> IF Has(stored.data, "currentPath")
                        THEN stored.data.currentPath ELSE Undefined]

\* The engine that the constructor builds when the stored item is `stored`
\* and the two reads of the clock for welcome.txt return `created`, `modified`.
constructor(stored, created, modified) ==
  LET savedFS == _loadFromLocalStorage(stored) IN
  IF savedFS.loaded
  THEN [fileSystem |-> savedFS.fileSystem, currentPath |-> savedFS.currentPath]
  ELSE [fileSystem |-> BootstrapFileSystem(created, modified), currentPath |-> HomeUser]

---------------------------------------------------------------------------
(* Inputs *)

Root == <<"", "">>

Tmp == <<"", "tmp">>

TmpA == <<"", "tmp", "a">>

TmpAB == <<"", "tmp", "a", "b">>

\* '../../tmp/a', relative
UpUpTmpA == <<"..", "..", "tmp", "a">>

\* '' and 'a\nb'
Contents == {<<>>, <<"a", "\n", "b">>}

\* '700' and 'rwx'
Modes == {<<"7", "0", "0">>, <<"r", "w", "x">>}

\* Paths that the properties try each operation on, in every reachable state:
\* '/', '/tmp', '/tmp/a', '/tmp/a/b', '../../tmp/a', '.', '..', '~', 'a',
\* 'a/b', '/tmp/', '/home/user', '/home/user/welcome.txt', '/etc/hostname', '/bin'
ProbePaths ==
  {Root, Tmp, TmpA, TmpAB, UpUpTmpA, <<".">>, <<"..">>, <<"~">>, <<"a">>, <<"a", "b">>,
   <<"", "tmp", "">>, HomeUser, <<"", "home", "user", "welcome.txt">>,
   <<"", "etc", "hostname">>, <<"", "bin">>}

---------------------------------------------------------------------------
(* The process manager *)

\* this.PROCESS_STATES
PROCESS_STATES ==
  [RUNNING |-> "running", SLEEPING |-> "sleeping", WAITING |-> "waiting",
   STOPPED |-> "stopped", ZOMBIE |-> "zombie"]

\* A process record: its pid, name, state, children (a list of pids) and
\* endTime, which is "null" or "set" (a Date).  The fields the scheduler gives
\* random values (cpuPercent, memory) and the ones nothing reads back
\* (command, priority, user, ...) are left out.
Process(pid, name, children, endTime) ==
  [pid |-> pid, name |-> name, state |-> PROCESS_STATES.RUNNING,
   children |-> children, endTime |-> endTime]

\* The five processes the constructor lists.  Of the children named, only
\* 2, 3, 345 and 346 are processes of the list.
InitialProcesses ==
  << Process(1, "init", <<2, 345>>, "null"),
     Process(2, "kthreadd", <<3, 4, 5, 6, 9>>, "null"),
     Process(3, "ksoftirqd/0", <<>>, "null"),
     Process(345, "systemd", <<346, 348>>, "null"),
     Process(346, "shell", <<>>, "null") >>

\* this.nextPid of a new process manager
FirstPid == 1000

\* The pids below this one are the scheduler's kernel processes.
KernelPids == 10

\* this.processTemplates: the name and the lifespan of each template
processTemplates ==
  [sleep |-> [name |-> "sleep", lifespan |-> 30000],
   httpd |-> [name |-> "httpd", lifespan |-> 0 - 1],
   nginx |-> [name |-> "nginx", lifespan |-> 0 - 1],
   mysql |-> [name |-> "mysqld", lifespan |-> 0 - 1],
   find |-> [name |-> "find", lifespan |-> 15000]]

\* startScheduler: the timer is set unless there is one.
startScheduler(interval) == IF interval = "null" THEN "timer" ELSE interval

\* The state the constructor of ProcessManager leaves: the five processes,
\* the counters, and the scheduler started.
ProcessManagerConstructed ==
  /\ processes = InitialProcesses
  /\ nextPid = FirstPid
  /\ schedulerInterval = startScheduler("null")
  /\ stats = [totalCreated |-> 5, totalKilled |-> 0]
  /\ uptime = 3600 % 2

\* this.processes.findIndex(p => p.pid === pid), counting from 1; 0 for the
\* -1 of no such process
findIndex(procs, pid) ==
  IF \E i \in DOMAIN procs : procs[i].pid = pid
  THEN CHOOSE i \in DOMAIN procs :
         procs[i].pid = pid /\ \A j \in 1..(i - 1) : procs[j].pid # pid
  ELSE 0

\* this.processes.splice(index, 1)
splice(procs, index) ==
  [i \in 1..(Len(procs) - 1) |-> IF i < index THEN procs[i] ELSE procs[i + 1]]

\* createProcess(name): the process pushed
createProcess(pid, name) ==
  LET hasTemplate == name \in DOMAIN processTemplates
      processTemplate == processTemplates[name]
  IN Process(pid, IF hasTemplate THEN processTemplate.name ELSE name, <<>>,
             IF hasTemplate /\ processTemplate.lifespan > 0 THEN "set" ELSE "null")

\* The loop of killProcess over the children of the process killed: each
\* child that is in the list becomes a zombie.
RECURSIVE makeZombies(_, _)
makeZombies(procs, childrenPids) ==
  IF childrenPids = <<>> THEN procs
  ELSE LET childIndex == findIndex(procs, Head(childrenPids))
           marked == IF childIndex # 0
                     THEN [procs EXCEPT ![childIndex].state = PROCESS_STATES.ZOMBIE]
                     ELSE procs
       IN makeZombies(marked, Tail(childrenPids))

\* killProcess(pid): whether it succeeds, and the list it leaves
killProcess(procs, pid) ==
  LET index == findIndex(procs, pid) IN
  IF index = 0 THEN [success |-> FALSE, processes |-> procs]
  ELSE IF pid = 1 THEN [success |-> FALSE, processes |-> procs]
  ELSE [success |-> TRUE,
        processes |-> splice(makeZombies(procs, procs[index].children), index)]

\* One turn of the scheduler's loop on a process that is no kernel process:
\* what the draw of rand and the reading of the clock can make of it.  A
\* running process stays or sleeps, a sleeping one stays or wakes, a zombie
\* stays or is cleaned up; a process that was not cleaned up and has an
\* endTime is removed, and counted as killed, when the clock is past it.
turn(process) ==
  LET states ==
        IF process.state = PROCESS_STATES.RUNNING
        THEN {PROCESS_STATES.RUNNING, PROCESS_STATES.SLEEPING}
        ELSE IF process.state = PROCESS_STATES.SLEEPING
        THEN {PROCESS_STATES.SLEEPING, PROCESS_STATES.RUNNING}
        ELSE {process.state}
      cleaned ==
        IF process.state = PROCESS_STATES.ZOMBIE
        THEN {[removed |-> TRUE, killed |-> 0, process |-> process]}
        ELSE {}
      expired ==
        IF process.endTime # "null"
        THEN {[removed |-> TRUE, killed |-> 1, process |-> [process EXCEPT !.state = st]] :
                st \in states}
        ELSE {}
  IN cleaned \cup expired \cup
     {[removed |-> FALSE, killed |-> 0, process |-> [process EXCEPT !.state = st]] :
        st \in states}

\* The loop of scheduleProcesses from index i on: the lists it can leave, each
\* with the number of processes it counted as killed.
RECURSIVE scheduleFrom(_, _)
scheduleFrom(procs, i) ==
  IF i > Len(procs) THEN {[processes |-> procs, killed |-> 0]}
  ELSE IF procs[i].pid < KernelPids THEN scheduleFrom(procs, i + 1)
  ELSE UNION {
         IF t.removed
         THEN {[processes |-> rest.processes, killed |-> rest.killed + t.killed] :
                 rest \in scheduleFrom(splice(procs, i), i)}
         ELSE scheduleFrom([procs EXCEPT ![i] = t.process], i + 1) :
         t \in turn(procs[i]) }

\* scheduleProcesses(): the lists the loop can leave.  contextSwitches, a
\* counter nothing reads back, is left out.
scheduleProcesses(procs) == scheduleFrom(procs, 1)

\* createProcess(name), while fewer than MaxCreated processes were created
CreateProcess(name) ==
  /\ nextPid < FirstPid + MaxCreated
  /\ processes' = Append(processes, createProcess(nextPid, name))
  /\ nextPid' = nextPid + 1
  /\ stats' = [stats EXCEPT !.totalCreated = @ + 1]
  /\ UNCHANGED <<schedulerInterval, uptime>>
  /\ UNCHANGED fsVars

KillProcess(pid) ==
  LET out == killProcess(processes, pid) IN
  /\ processes' = out.processes
  /\ stats' = IF out.success THEN [stats EXCEPT !.totalKilled = @ + 1] ELSE stats
  /\ UNCHANGED <<nextPid, schedulerInterval, uptime>>
  /\ UNCHANGED fsVars

\* The timer that startScheduler set fires: scheduleProcesses runs, counting
\* one more second of uptime.
ScheduleProcesses ==
  /\ schedulerInterval # "null"
  /\ uptime' = (uptime + 1) % 2
  /\ \E out \in scheduleProcesses(processes) :
       /\ processes' = out.processes
       /\ stats' = [stats EXCEPT !.totalKilled = @ + out.killed]
  /\ UNCHANGED <<nextPid, schedulerInterval>>
  /\ UNCHANGED fsVars

---------------------------------------------------------------------------
(* The engine *)

\* setItem that loses the item it had when it throws
setItemClearingOnFailure(stored, value, writeOk) == IF writeOk THEN value ELSE Absent

\* localStorage.setItem('virtualFileSystem', value): the item stored
\* afterwards; with writeOk = FALSE it throws and the item stays as it was.
setItem(stored, value, writeOk) == IF writeOk THEN value ELSE stored

\* The wrapper with 'changeDirectory' missing from methodsToWrap
AutoSaveWithoutChangeDirectory(call, out, writeOk) ==
  /\ fileSystem' = out.fileSystem
  /\ currentPath' = out.currentPath
  /\ storage' = IF out.result.success /\ call.op # "changeDirectory"
                THEN setItem(storage, _saveToLocalStorage(out.fileSystem, out.currentPath),
                             writeOk)
                ELSE storage
  /\ sync' = IF ~out.result.success THEN sync
             ELSE IF ~writeOk THEN "lost"
             ELSE IF sync = "lost" THEN "lost" ELSE "saved"
  /\ last' = call @@ [result |-> out.result, stored |-> out.result.success /\ writeOk]
  /\ UNCHANGED pmVars

\* The wrapper that _setupAutoSave puts around a mutating method: the method
\* runs, and a successful result is followed by _saveToLocalStorage, whose
\* setItem stores the item unless it throws (writeOk = FALSE).  `stored`
\* notes whether the call stored the item.
AutoSave(call, out, writeOk) ==
  /\ fileSystem' = out.fileSystem
  /\ currentPath' = out.currentPath
  /\ storage' = IF out.result.success
                THEN setItem(storage, _saveToLocalStorage(out.fileSystem, out.currentPath),
                             writeOk)
                ELSE storage
  /\ sync' = IF ~out.result.success THEN sync
             ELSE IF ~writeOk THEN "lost"
             ELSE IF sync = "lost" THEN "lost" ELSE "saved"
  /\ last' = call @@ [result |-> out.result, stored |-> out.result.success /\ writeOk]
  /\ UNCHANGED pmVars

\* A method that _setupAutoSave does not wrap.
Query(call, result) ==
  /\ UNCHANGED <<fileSystem, currentPath, storage, clock, sync>>
  /\ last' = call @@ [result |-> result]
  /\ UNCHANGED pmVars

MakeDirectory(path, now, writeOk) ==
  /\ clock' = now
  /\ AutoSave([op |-> "makeDirectory", path |-> path],
              makeDirectory(fileSystem, currentPath, path, now), writeOk)

CreateFile(path, content, now, writeOk) ==
  /\ clock' = now
  /\ AutoSave([op |-> "createFile", path |-> path, content |-> content],
              createFile(fileSystem, currentPath, path, content, now), writeOk)

WriteFile(path, content, now1, now2, writeOk) ==
  /\ clock' = now2
  /\ AutoSave([op |-> "writeFile", path |-> path, content |-> content],
              writeFile(fileSystem, currentPath, path, content, now1, now2), writeOk)

\* `removed` notes how many nodes the call deleted.
Remove(path, recursive, writeOk) ==
  LET out == remove(fileSystem, currentPath, path, recursive) IN
  /\ UNCHANGED clock
  /\ AutoSave([op |-> "remove", path |-> path, recursive |-> recursive,
               removed |-> Cardinality(AllPaths(fileSystem))
                           - Cardinality(AllPaths(out.fileSystem))],
              out, writeOk)

\* `moved` notes whether the call changed the cursor.
ChangeDirectory(path, writeOk) ==
  LET out == changeDirectory(fileSystem, currentPath, path) IN
  /\ UNCHANGED clock
  /\ AutoSave([op |-> "changeDirectory", path |-> path,
               moved |-> out.currentPath # currentPath],
              out, writeOk)

ChangePermissions(path, permissions, writeOk) ==
  /\ UNCHANGED clock
  /\ AutoSave([op |-> "changePermissions", path |-> path, permissions |-> permissions],
              changePermissions(fileSystem, currentPath, path, permissions), writeOk)

ReadFile(path) ==
  Query([op |-> "readFile", path |-> path], readFile(fileSystem, currentPath, path))

FileExists(path) ==
  Query([op |-> "fileExists", path |-> path], fileExists(fileSystem, currentPath, path))

GetCurrentDirectory ==
  Query([op |-> "getCurrentDirectory"], getCurrentDirectory(currentPath))

\* listDirectory that makes the directory it lists the cursor
ListDirectoryEnteringIt(path, now) ==
  LET result == listDirectory(fileSystem, currentPath, path, now) IN
  /\ UNCHANGED <<fileSystem, storage, sync>>
  /\ currentPath' = IF result.success /\ path # <<".">> THEN path ELSE currentPath
  /\ clock' = now
  /\ last' = [op |-> "listDirectory", path |-> path, result |-> result]
  /\ UNCHANGED pmVars

\* listDirectory and getFileDetails are not wrapped; each may read the clock.
ListDirectory(path, now) ==
  /\ UNCHANGED <<fileSystem, currentPath, storage, sync>>
  /\ clock' = now
  /\ last' = [op |-> "listDirectory", path |-> path,
              result |-> listDirectory(fileSystem, currentPath, path, now)]
  /\ UNCHANGED pmVars

GetFileDetails(path, now) ==
  /\ UNCHANGED <<fileSystem, currentPath, storage, sync>>
  /\ clock' = now
  /\ last' = [op |-> "getFileDetails", path |-> path,
              result |-> getFileDetails(fileSystem, currentPath, path, now)]
  /\ UNCHANGED pmVars

FindFiles(startDir, pattern) ==
  Query([op |-> "findFiles", path |-> startDir, pattern |-> pattern],
        findFiles(fileSystem, currentPath, startDir, pattern))

\* The command mv: its engine calls are the wrapped methods, so each that
\* succeeds is followed by a save, whose write is writeOk1 for createFile and
\* writeOk2 for remove.
Mv(source, destination, now, writeOk1, writeOk2) ==
  \E out \in {handleMv(fileSystem, currentPath, source, destination, now)} :
  LET n == Len(out.saves)
      item1 == IF n >= 1
               THEN setItem(storage, _saveToLocalStorage(out.saves[1].fileSystem,
                                                         out.saves[1].currentPath), writeOk1)
               ELSE storage
      item2 == IF n >= 2
               THEN setItem(item1, _saveToLocalStorage(out.saves[2].fileSystem,
                                                       out.saves[2].currentPath), writeOk2)
               ELSE item1
      lost == (n >= 1 /\ ~writeOk1) \/ (n >= 2 /\ ~writeOk2)
  IN /\ fileSystem' = out.fileSystem
     /\ currentPath' = out.currentPath
     /\ storage' = item2
     /\ clock' = now
     /\ sync' = IF n = 0 THEN sync
                ELSE IF lost \/ sync = "lost" THEN "lost" ELSE "saved"
     /\ last' = [op |-> "mv", path |-> source, destination |-> destination,
                 result |-> out.result, stored |-> n >= 1 /\ ~lost]
     /\ UNCHANGED pmVars

\* The state a first page load leaves when the stored item is `stored`: the
\* constructor runs, reading the clock twice if it builds the bootstrap tree,
\* and the process manager is new.
Constructed(stored, created, modified) ==
  LET engine == constructor(stored, created, modified) IN
  /\ ProcessManagerConstructed
  /\ fileSystem = engine.fileSystem
  /\ currentPath = engine.currentPath
  /\ storage = stored
  /\ clock = IF _loadFromLocalStorage(stored).loaded THEN 0 ELSE modified
  /\ sync = "fresh"
  /\ last = [op |-> "constructor"]

\* The page is loaded again: a new engine is constructed from the stored item.
Reload(created, modified) ==
  LET engine == constructor(storage, created, modified) IN
  /\ fileSystem' = engine.fileSystem
  /\ currentPath' = engine.currentPath
  /\ UNCHANGED storage
  /\ clock' = IF _loadFromLocalStorage(storage).loaded THEN clock ELSE modified
  /\ sync' = "fresh"
  /\ last' = [op |-> "constructor"]
  /\ UNCHANGED pmVars

---------------------------------------------------------------------------
(* Spec: one session of the engine, from the bootstrap tree, on /tmp and    *)
(* below.                                                                  *)

Init == \E modified \in Readings(0) : Constructed(Absent, 0, modified)

Next ==
  \/ \E path \in {Tmp, TmpA, TmpAB, UpUpTmpA}, now \in Readings(clock) :
       MakeDirectory(path, now, TRUE)
  \/ \E path \in {Tmp, TmpA, UpUpTmpA}, content \in Contents, now \in Readings(clock) :
       CreateFile(path, content, now, TRUE)
  \/ \E path \in {TmpA}, content \in Contents, now1 \in Readings(clock) :
       \E now2 \in Readings(now1) : WriteFile(path, content, now1, now2, TRUE)
  \/ \E path \in {Root, Tmp, TmpA}, recursive \in BOOLEAN : Remove(path, recursive, TRUE)
  \/ \E path \in {Root, <<"~">>, <<"..">>, Tmp, <<"a">>} : ChangeDirectory(path, TRUE)
  \/ \E path \in {TmpA}, permissions \in Modes : ChangePermissions(path, permissions, TRUE)
  \/ \E path \in {Root, TmpA} : ReadFile(path)

Spec == Init /\ [][Next]_vars

---------------------------------------------------------------------------
(* SpecRoot: one session of the engine, from the bootstrap tree, on paths   *)
(* that resolve to the root and on /tmp.                                   *)

NextRoot ==
  \/ \E path \in {Root, Tmp}, content \in Contents, now \in Readings(clock) :
       CreateFile(path, content, now, TRUE)
  \/ \E path \in {<<"..">>}, content \in {<<>>}, now1 \in Readings(clock) :
       \E now2 \in Readings(now1) : WriteFile(path, content, now1, now2, TRUE)
  \/ \E path \in {Root, Tmp}, recursive \in BOOLEAN : Remove(path, recursive, TRUE)
  \/ \E path \in {Root, <<"..">>} : ChangeDirectory(path, TRUE)
  \/ \E path \in {Root, Tmp} : ReadFile(path)

SpecRoot == Init /\ [][NextRoot]_vars

---------------------------------------------------------------------------
(* SpecLoad: page loads.  The first finds any stored item, well-formed or   *)
(* not; later ones find what the engine stored.                            *)

Unparseable == [kind |-> "unparseable"]

JsonNull == [kind |-> "null"]

JsonNumber == [kind |-> "number"]

InitLoad ==
  \E modified \in Readings(0) :
    \/ Constructed(Absent, 0, modified)
    \/ Constructed(Unparseable, 0, modified)
    \/ Constructed(JsonNull, 0, modified)
    \/ Constructed(JsonNumber, 0, modified)
    \/ Constructed(JsonObject(<<>>), 0, modified)
    \/ Constructed(JsonObject([fileSystem |-> <<>>]), 0, modified)
    \/ Constructed(JsonObject([fileSystem |-> <<>>, currentPath |-> HomeUser]), 0, modified)
    \/ Constructed(JsonObject([fileSystem |-> ("/" :> EmptyDirectory)]), 0, modified)

NextLoad ==
  \/ \E path \in {Tmp, TmpA}, now \in Readings(clock) : MakeDirectory(path, now, TRUE)
  \/ \E path \in {TmpAB}, content \in Contents, now \in Readings(clock) :
       CreateFile(path, content, now, TRUE)
  \/ \E path \in {Root, Tmp} : ChangeDirectory(path, TRUE)
  \/ \E created \in Readings(clock) : \E modified \in Readings(created) :
       Reload(created, modified)

SpecLoad == InitLoad /\ [][NextLoad]_vars

---------------------------------------------------------------------------
(* SpecFind: one session of the engine, from the bootstrap tree, that       *)
(* creates entries under /tmp and looks at the tree with the queries.      *)

NextFind ==
  \/ \E path \in {TmpA}, now \in Readings(clock) : MakeDirectory(path, now, TRUE)
  \/ \E path \in {TmpAB}, content \in {<<>>}, now \in Readings(clock) :
       CreateFile(path, content, now, TRUE)
  \/ \E path \in {Tmp, <<"", "tmp", "">>, <<"..">>} : ChangeDirectory(path, TRUE)
  \/ \E startDir \in {<<".">>, Root}, pattern \in {<<"*">>, <<"l", ".">>} :
       FindFiles(startDir, pattern)
  \/ \E path \in {<<".">>}, now \in Readings(clock) : ListDirectory(path, now)
  \/ \E path \in {TmpA}, now \in Readings(clock) : GetFileDetails(path, now)

SpecFind == Init /\ [][NextFind]_vars

---------------------------------------------------------------------------
(* SpecModes: changePermissions on /tmp, with modes of three octal digits   *)
(* and with modes of other shapes.                                         *)

OctalDigits == {"0", "1", "2", "3", "4", "5", "6", "7"}

\* '000' .. '777'
OctalModes == {<<d1, d2, d3>> : d1 \in OctalDigits, d2 \in OctalDigits, d3 \in OctalDigits}

\* '8', '75', '999', '7777', 'rwx', '', 'rwxr-xr-xr', 'rwxr-xr-d'
OtherModes ==
  {<<"8">>, <<"7", "5">>, <<"9", "9", "9">>, <<"7", "7", "7", "7">>, <<"r", "w", "x">>,
   <<>>, rwxRxRx \o <<"r">>, Pop(rwxRxRx) \o <<"d">>}

\* '044' .. '755': every first digit, with '4' and '5' as second and third
SomeOctalModes == {<<d1, d2, d3>> : d1 \in OctalDigits, d2 \in {"4", "5"}, d3 \in {"4", "5"}}

NextModes ==
  \E path \in {Tmp}, permissions \in SomeOctalModes \cup OtherModes \cup {rwDashRDashRDash} :
    ChangePermissions(path, permissions, TRUE)

SpecModes == Init /\ [][NextModes]_vars

---------------------------------------------------------------------------
(* SpecStorage: one session of the engine, from the bootstrap tree, on      *)
(* /tmp/a, in which any write to the storage may fail.  In the other       *)
(* specifications every write succeeds.                                    *)

NextStorage ==
  \E writeOk \in BOOLEAN :
    \/ \E now \in Readings(clock) : MakeDirectory(TmpA, now, writeOk)
    \/ \E now \in Readings(clock) : CreateFile(TmpA, <<>>, now, writeOk)
    \/ \E now1 \in Readings(clock) : \E now2 \in Readings(now1) :
         WriteFile(TmpA, <<"a", "\n", "b">>, now1, now2, writeOk)
    \/ Remove(TmpA, FALSE, writeOk)
    \/ \E path \in {Root, Tmp} : ChangeDirectory(path, writeOk)
    \/ ChangePermissions(TmpA, <<"7", "0", "0">>, writeOk)

SpecStorage == Init /\ [][NextStorage]_vars

---------------------------------------------------------------------------
(* SpecMv: one session of the engine and the command mv, from the           *)
(* bootstrap tree, on files of /tmp.                                       *)

TmpB == <<"", "tmp", "b">>

NextMv ==
  \/ \E content \in Contents, now \in Readings(clock) : CreateFile(TmpA, content, now, TRUE)
  \/ \E path \in {Tmp} : ChangeDirectory(path, TRUE)
  \/ \E source \in {TmpA, <<"a">>}, destination \in {TmpA, TmpB} :
       \E now \in Readings(clock) : Mv(source, destination, now, TRUE, TRUE)
  \/ \E path \in {TmpB} : ReadFile(path)

SpecMv == Init /\ [][NextMv]_vars

---------------------------------------------------------------------------
(* SpecRelative: one session of the engine, from the bootstrap tree, that   *)
(* moves the cursor and creates directories by relative paths.             *)

\* '.././tmp//a'
UpDotTmpA == <<"..", ".", "tmp", "", "a">>

NextRelative ==
  \/ \E path \in {Tmp, <<"..">>} : ChangeDirectory(path, TRUE)
  \/ \E path \in {<<"a">>, UpDotTmpA}, now \in Readings(clock) : MakeDirectory(path, now, TRUE)
  \/ \E now \in Readings(clock) : ListDirectory(<<".">>, now)

SpecRelative == Init /\ [][NextRelative]_vars

---------------------------------------------------------------------------
(* SpecAll: one session of the engine, from the bootstrap tree, with every  *)
(* public method, on /tmp/a and /tmp/a/b; the calls include ones that      *)
(* fail: an existing name, a missing parent, a directory that is not       *)
(* empty, a malformed mode, a missing target.                              *)

NextAll ==
  \/ \E now \in Readings(clock) : MakeDirectory(TmpA, now, TRUE)
  \/ \E now \in Readings(clock) : CreateFile(TmpAB, <<>>, now, TRUE)
  \/ \E now1 \in Readings(clock) : \E now2 \in Readings(now1) :
       WriteFile(TmpAB, <<"a", "\n", "b">>, now1, now2, TRUE)
  \/ \E recursive \in BOOLEAN : Remove(TmpA, recursive, TRUE)
  \/ \E permissions \in Modes : ChangePermissions(TmpAB, permissions, TRUE)
  \/ \E path \in {Tmp, <<"a">>} : ChangeDirectory(path, TRUE)
  \/ \E now \in Readings(clock) : ListDirectory(Tmp, now)
  \/ \E now \in Readings(clock) : GetFileDetails(TmpAB, now)
  \/ ReadFile(TmpAB)
  \/ FindFiles(<<".">>, <<"*">>)
  \/ FileExists(TmpA)
  \/ GetCurrentDirectory

SpecAll == Init /\ [][NextAll]_vars

---------------------------------------------------------------------------
(* Vocabulary of the properties *)

\* The component list that the engine resolves `path` to from the cursor.
Target(path) == _parsePath(currentPath, path).components

ResolvesToRoot(path) == ~_parsePath(currentPath, path).threw /\ Target(path) = <<>>

\* The path string '/c1/c2/...' of a component list.
AbsolutePath(components) == slashJoin(components)

Exists(fs, cwd, path) == fileExists(fs, cwd, path).exists

SameField(n, m, key) == (Has(n, key) <=> Has(m, key)) /\ (Has(n, key) => n[key] = m[key])

SameInstant(n, m, key) == (Has(n, key) <=> Has(m, key)) /\ (Has(n, key) => n[key].ms = m[key].ms)

SameAttributes(n, m) ==
  SameField(n, m, "type") /\ SameField(n, m, "content") /\ SameField(n, m, "permissions")

SameNode(n, m) ==
  /\ SameAttributes(n, m)
  /\ SameField(n, m, "size")
  /\ SameInstant(n, m, "created")
  /\ SameInstant(n, m, "modified")

SameTree(fsA, fsB) ==
  /\ AllPaths(fsA) = AllPaths(fsB)
  /\ \A q \in AllPaths(fsA) : SameNode(NodeAt(fsA, q), NodeAt(fsB, q))

MutatingOps ==
  {"makeDirectory", "createFile", "writeFile", "remove", "changePermissions", "changeDirectory"}

Succeeded == last.op # "constructor" /\ last.result.success

---------------------------------------------------------------------------
(* C1 *)

CursorValid ==
  LET r == _getNodeAtPath(fileSystem, currentPath, currentPath)
  IN r.success /\ r.node.type = "directory"

\* C1: whenever an engine call has returned success, the cursor currentPath
\* resolves to an existing node of type directory.
C1_CursorValidAfterSuccess == Succeeded => CursorValid

---------------------------------------------------------------------------
(* C2 *)

\* C2: with storage writes succeeding, after every successful mutating call,
\* and at every point after the first one, the stored item is the
\* serialization of the current in-memory tree and cursor.
C2_StoredItemTracksMemory ==
  /\ sync = "saved" => storage = _saveToLocalStorage(fileSystem, currentPath)
  /\ (Succeeded /\ last.op \in MutatingOps /\ sync # "lost") => sync = "saved"

\* A successful remove, with the cursor moved away from the home directory
\* by an earlier call, has been saved.
C2_Witness ==
  /\ Succeeded /\ last.op = "remove" /\ last.removed >= 1
  /\ sync = "saved"
  /\ currentPath = Tmp
  /\ storage.data.currentPath = Tmp
  /\ ~Has(storage.data.fileSystem["/"].children, "tmp")

---------------------------------------------------------------------------
(* C6 *)

ExistingDirectory(path) ==
  LET r == _getNodeAtPath(fileSystem, currentPath, path)
  IN r.success /\ r.node.type = "directory"

\* remove(path, true) succeeds; no path at or below the target exists
\* afterwards; every other node is still there with its type, content and
\* permissions; and no node has appeared.
RemovesExactlySubtree(path) ==
  LET out == remove(fileSystem, currentPath, path, TRUE) IN
  /\ out.result.success
  /\ ~Exists(out.fileSystem, out.currentPath, path)
  /\ \A q \in AllPaths(fileSystem) :
       IF IsPrefix(Target(path), q)
       THEN ~Exists(out.fileSystem, out.currentPath, AbsolutePath(q))
       ELSE /\ q \in AllPaths(out.fileSystem)
            /\ SameAttributes(NodeAt(fileSystem, q), NodeAt(out.fileSystem, q))
  /\ AllPaths(out.fileSystem) \subseteq AllPaths(fileSystem)

\* C6, as claimed: remove(p, recursive=true) on any existing directory p
\* succeeds and deletes exactly the subtree of p.
C6_RecursiveRemoveOfAnyDirectory ==
  \A path \in ProbePaths : ExistingDirectory(path) => RemovesExactlySubtree(path)

\* C6, amended: remove(p, recursive=true) on an existing directory p other
\* than the root succeeds and deletes exactly the subtree of p.
C6_RecursiveRemoveBelowRoot ==
  \A path \in ProbePaths :
    (ExistingDirectory(path) /\ ~ResolvesToRoot(path)) => RemovesExactlySubtree(path)

\* remove('/tmp', true) has deleted /tmp and at least two nodes below it.
C6_Witness ==
  /\ Succeeded /\ last.op = "remove" /\ last.recursive /\ last.path = Tmp
  /\ last.removed >= 3
  /\ ~Exists(fileSystem, currentPath, Tmp)
  /\ Exists(fileSystem, currentPath, HomeUser)

---------------------------------------------------------------------------
(* C7 *)

NotEmpty == Failure("Directory not empty")

\* remove(path) without the recursive flag: on a directory with a child it
\* returns NotEmpty and leaves the tree as it is; on an empty directory or a
\* file it deletes that node and nothing else.
NonRecursiveRemove(path) ==
  LET r == _getNodeAtPath(fileSystem, currentPath, path)
      out == remove(fileSystem, currentPath, path, FALSE)
  IN r.success =>
       IF r.node.type = "directory" /\ DOMAIN r.node.children # {}
       THEN out.result = NotEmpty /\ out.fileSystem = fileSystem
       ELSE /\ out.result.success
            /\ ~Exists(out.fileSystem, out.currentPath, path)
            /\ AllPaths(out.fileSystem) = AllPaths(fileSystem) \ {Target(path)}

\* C7, as claimed: for every path that names a node.
C7_NonRecursiveRemoveOfAnyNode == \A path \in ProbePaths : NonRecursiveRemove(path)

\* C7, amended: for every path that names a node other than the root.
C7_NonRecursiveRemoveBelowRoot ==
  \A path \in ProbePaths : ~ResolvesToRoot(path) => NonRecursiveRemove(path)

\* remove('/tmp') has returned NotEmpty, and /tmp and its child are there.
C7_Witness ==
  /\ last.op = "remove" /\ ~last.recursive /\ last.path = Tmp
  /\ last.result = NotEmpty
  /\ Exists(fileSystem, currentPath, TmpA)

---------------------------------------------------------------------------
(* C8 *)

AlreadyExists == Failure("File exists")

\* C8: makeDirectory(p) returns AlreadyExists when the parent has a child
\* of that name, file or directory, and then changes nothing; and a
\* makeDirectory(p) that succeeds makes the next makeDirectory(p) fail so.
C8_MakeDirectoryAlreadyExists ==
  \A path \in ProbePaths : \A now \in Readings(clock) :
    LET out == makeDirectory(fileSystem, currentPath, path, now) IN
    /\ (Target(path) # <<>> /\ Target(path) \in AllPaths(fileSystem))
         => (out.result = AlreadyExists /\ out.fileSystem = fileSystem)
    /\ out.result.success
         => \A later \in Readings(now) :
              makeDirectory(out.fileSystem, out.currentPath, path, later).result
                = AlreadyExists

\* makeDirectory on a path that holds a file has returned AlreadyExists,
\* and the file is still there.
C8_Witness ==
  /\ last.op = "makeDirectory" /\ last.result = AlreadyExists
  /\ NodeAt(fileSystem, Target(last.path)).type = "file"

---------------------------------------------------------------------------
(* C9 *)

\* C9: after a successful createFile(p, c) or writeFile(p, c), readFile(p)
\* returns success with content c.
C9_WriteThenRead ==
  (Succeeded /\ last.op \in {"createFile", "writeFile"})
    => readFile(fileSystem, currentPath, last.path)
         = [success |-> TRUE, content |-> last.content]

---------------------------------------------------------------------------
(* C10 *)

\* createFile(path, content) at instant now, on a path that names a node:
\* it succeeds and the node has modified, content and size from the call.
UpsertRefreshes(path, content, now, out) ==
  LET after == _getNodeAtPath(out.fileSystem, out.currentPath, path) IN
  /\ out.result.success
  /\ after.success /\ after.node.type = "file"
  /\ after.node.modified = Date(now)
  /\ after.node.content = content
  /\ after.node.size = Len(content)

\* createFile on a path that names no node, when it succeeds
CreatesNew(path, now, out) ==
  LET after == _getNodeAtPath(out.fileSystem, out.currentPath, path) IN
  out.result.success =>
    /\ after.success
    /\ after.node.created = Date(now) /\ after.node.modified = Date(now)
    /\ after.node.permissions = rwDashRDashRDash

\* C10: on an existing node createFile succeeds, created is what
\* it was before the call, and modified, content, size are now, c, length of
\* c; on a new name created = modified = now, permissions 'rw-r--r--'.
C10_UpsertKeepsCreated ==
  \A path \in ProbePaths : \A content \in Contents : \A now \in Readings(clock) :
    LET before == _getNodeAtPath(fileSystem, currentPath, path)
        out == createFile(fileSystem, currentPath, path, content, now)
        after == _getNodeAtPath(out.fileSystem, out.currentPath, path)
    IN IF before.success
       THEN /\ UpsertRefreshes(path, content, now, out)
            /\ SameField(before.node, after.node, "created")
       ELSE CreatesNew(path, now, out)

---------------------------------------------------------------------------
(* C3, C4, C5 *)

\* The engine that a page load would construct from what a save of the
\* current state stores.
SavedAndLoaded == constructor(_saveToLocalStorage(fileSystem, currentPath), clock, clock)

\* C3: saving and then loading yields the same paths, the same type,
\* content, permissions, size and created/modified instants at every node,
\* and the same cursor.
C3_RoundTrip ==
  /\ SameTree(SavedAndLoaded.fileSystem, fileSystem)
  /\ SavedAndLoaded.currentPath = currentPath

\* An engine has been constructed from an item that an earlier engine
\* stored, with a nested directory /tmp/a that holds a file of two lines.
C3_Witness ==
  /\ last.op = "constructor" /\ storage.kind = "object"
  /\ currentPath = Tmp
  /\ NodeAt(fileSystem, <<"tmp", "a", "b">>).type = "file"
  /\ NodeAt(fileSystem, <<"tmp", "a", "b">>).content = <<"a", "\n", "b">>
  /\ NodeAt(fileSystem, <<"tmp", "a">>).created.ms < NodeAt(fileSystem, <<"tmp", "a", "b">>).created.ms

IsTimestampValue(value) == value.k = "Date"

\* C4: after an engine is constructed from a stored item, every node that
\* has a created or modified field holds a timestamp value in it.
C4_LoadedTimestampsRestored ==
  (last.op = "constructor" /\ _loadFromLocalStorage(storage).loaded)
    => \A q \in AllPaths(fileSystem) : \A key \in {"created", "modified"} :
         Has(NodeAt(fileSystem, q), key) => IsTimestampValue(NodeAt(fileSystem, q)[key])

\* The stored item has the persisted shape: an object with a "fileSystem"
\* that has a root directory "/", and a "currentPath".
HasPersistedShape(stored) ==
  /\ stored.kind = "object"
  /\ Has(stored.data, "fileSystem")
  /\ Has(stored.data.fileSystem, "/")
  /\ stored.data.fileSystem["/"].type = "directory"
  /\ Has(stored.data, "currentPath")

IsBootstrap(fs) ==
  \E created \in 0..MaxClock, modified \in 0..MaxClock :
    fs = BootstrapFileSystem(created, modified)

\* C5: an engine constructed from a stored item that is absent, not
\* parseable or not of the persisted shape holds the bootstrap tree and the
\* cursor '/home/user'.
C5_FallbackToBootstrap ==
  (last.op = "constructor" /\ ~HasPersistedShape(storage))
    => (IsBootstrap(fileSystem) /\ currentPath = HomeUser)

---------------------------------------------------------------------------
(* C11 *)

\* `path` names nothing, and its parent is an existing directory.
AbsentUnderExistingParent(path) ==
  LET r == _getParentAndBasename(fileSystem, currentPath, path) IN
  /\ ~Exists(fileSystem, currentPath, path)
  /\ r.success /\ IsDirectory(r.parentNode)
  /\ ~Has(r.parentNode.children, r.basename)

\* C11: writeFile(p, c) on an existing file succeeds, keeps the file's
\* permissions and created, and sets content = c, size = length of c and
\* modified = now; on an absent name under an existing parent directory it
\* succeeds and creates a file with permissions 'rw-r--r--'.
C11_WriteFileKeepsPermissions ==
  \A path \in ProbePaths : \A content \in Contents :
    \A now1 \in Readings(clock) : \A now2 \in Readings(now1) :
      LET before == _getNodeAtPath(fileSystem, currentPath, path)
          out == writeFile(fileSystem, currentPath, path, content, now1, now2)
          after == _getNodeAtPath(out.fileSystem, out.currentPath, path)
      IN /\ (before.success /\ before.node.type = "file") =>
              /\ out.result.success
              /\ after.success /\ after.node.type = "file"
              /\ SameField(before.node, after.node, "permissions")
              /\ SameField(before.node, after.node, "created")
              /\ after.node.content = content
              /\ after.node.size = Len(content)
              /\ after.node.modified = Date(now2)
         /\ AbsentUnderExistingParent(path) =>
              /\ out.result.success
              /\ after.success /\ after.node.type = "file"
              /\ after.node.permissions = rwDashRDashRDash
              /\ after.node.content = content

\* writeFile has rewritten, at a later instant, a file whose permissions an
\* earlier changePermissions had set to 'rwx------'.
C11_Witness ==
  /\ Succeeded /\ last.op = "writeFile" /\ last.path = TmpA
  /\ LET node == NodeAt(fileSystem, <<"tmp", "a">>) IN
     /\ node.type = "file"
     /\ node.permissions = <<"r", "w", "x", "-", "-", "-", "-", "-", "-">>
     /\ node.content = last.content
     /\ node.created.ms < node.modified.ms

---------------------------------------------------------------------------
(* C12 *)

\* C12: a successful makeDirectory(p), p below the root, creates a directory
\* with no children, size 0, created equal to modified and permissions
\* 'rwxr-xr-x', and listDirectory of its parent and getFileDetails report
\* that same string as its permissions.
C12_NewDirectoryPermissions ==
  \A path \in ProbePaths : \A now \in Readings(clock) :
    LET out == makeDirectory(fileSystem, currentPath, path, now)
        r == _getParentAndBasename(fileSystem, currentPath, path)
        after == _getNodeAtPath(out.fileSystem, out.currentPath, path)
        listed == listDirectory(out.fileSystem, out.currentPath,
                                AbsolutePath(r.parent), now)
        details == getFileDetails(out.fileSystem, out.currentPath, path, now)
    IN (out.result.success /\ ~ResolvesToRoot(path)) =>
         /\ after.success /\ after.node.type = "directory"
         /\ after.node.children = <<>>
         /\ after.node.size = 0
         /\ after.node.created = after.node.modified
         /\ after.node.permissions = rwxRxRx
         /\ listed.success /\ listed.files[r.basename].permissions = rwxRxRx
         /\ details.success /\ details.details.permissions = rwxRxRx

---------------------------------------------------------------------------
(* C13 *)

InvalidPermissionFormat == Failure("Invalid permission format")

\* Exactly three digits, each in 0..7
IsOctalMode(mode) == Len(mode) = 3 /\ \A i \in 1..3 : mode[i] \in OctalDigits

\* Exactly nine characters, each of r, w, x, -
IsSymbolicMode(mode) == Len(mode) = 9 /\ \A i \in 1..9 : mode[i] \in {"r", "w", "x", "-"}

\* C13: changePermissions on an existing node with a mode that is neither
\* three octal digits nor nine characters of r, w, x, - returns the
\* InvalidPermissionFormat error and leaves the node's permissions (and the
\* whole tree) as they were.
C13_InvalidModeRejected ==
  \A path \in ProbePaths : \A mode \in OtherModes :
    LET out == changePermissions(fileSystem, currentPath, path, mode) IN
    (Exists(fileSystem, currentPath, path) /\ ~IsOctalMode(mode) /\ ~IsSymbolicMode(mode)) =>
      /\ out.result = InvalidPermissionFormat
      /\ out.fileSystem = fileSystem

---------------------------------------------------------------------------
(* C14 *)

\* g(d): 'r' or '-' by bit 4 of the digit, 'w' or '-' by bit 2, 'x' or '-' by bit 1
OctalGroup(d) ==
  CASE d = "0" -> <<"-", "-", "-">> [] d = "1" -> <<"-", "-", "x">>
    [] d = "2" -> <<"-", "w", "-">> [] d = "3" -> <<"-", "w", "x">>
    [] d = "4" -> <<"r", "-", "-">> [] d = "5" -> <<"r", "-", "x">>
    [] d = "6" -> <<"r", "w", "-">> [] d = "7" -> <<"r", "w", "x">>

OctalToSymbolic(mode) == OctalGroup(mode[1]) \o OctalGroup(mode[2]) \o OctalGroup(mode[3])

SevenFiveFive == <<"7", "5", "5">>

SixFourFour == <<"6", "4", "4">>

\* changePermissions(path, mode) succeeds and leaves the node with `symbolic`.
SetsPermissions(path, mode, symbolic) ==
  LET out == changePermissions(fileSystem, currentPath, path, mode)
      after == _getNodeAtPath(out.fileSystem, out.currentPath, path)
  IN out.result.success /\ after.success /\ after.node.permissions = symbolic

\* C14: for every mode d1d2d3 of three octal digits changePermissions sets
\* the permissions of an existing node to g(d1)+g(d2)+g(d3): on /tmp for all
\* 512 modes, on every other existing node for 755 and 644, which give
\* 'rwxr-xr-x' and 'rw-r--r--'; and the node that a call with such a mode
\* has just changed carries that string.
C14_OctalToSymbolic ==
  /\ \A mode \in OctalModes : SetsPermissions(Tmp, mode, OctalToSymbolic(mode))
  /\ \A path \in ProbePaths :
       Exists(fileSystem, currentPath, path) =>
         /\ SetsPermissions(path, SevenFiveFive, rwxRxRx)
         /\ SetsPermissions(path, SixFourFour, rwDashRDashRDash)
  /\ (Succeeded /\ last.op = "changePermissions" /\ IsOctalMode(last.permissions)) =>
       _getNodeAtPath(fileSystem, currentPath, last.path).node.permissions
         = OctalToSymbolic(last.permissions)

\* changePermissions('/tmp', '755') has set 'rwxr-xr-x'.
C14_Witness ==
  /\ Succeeded /\ last.op = "changePermissions" /\ last.permissions = SevenFiveFive
  /\ NodeAt(fileSystem, <<"tmp">>).permissions = rwxRxRx

---------------------------------------------------------------------------
(* C15 *)

\* '*', '?', '??', 'l.', 'l?', '*.txt', '*s', 'a', 'welcome.txt', 'welcome?txt', ''
ProbePatterns ==
  {<<"*">>, <<"?">>, <<"?", "?">>, <<"l", ".">>, <<"l", "?">>,
   <<"*", ".", "t", "x", "t">>, <<"*", "s">>, <<"a">>, Chars("welcome.txt"),
   <<"w", "e", "l", "c", "o", "m", "e", "?", "t", "x", "t">>, <<>>}

\* The component lists of the nodes strictly below the node at `components`.
DescendantsOf(fs, components) ==
  {q \in AllPaths(fs) : IsPrefix(components, q) /\ q # components}

\* C15: for every startDir that resolves to a directory, every string that
\* findFiles returns is the canonical absolute path of an existing
\* descendant of that directory.
C15_FindFilesReturnsAbsolutePaths ==
  \A startDir \in ProbePaths : \A pattern \in ProbePatterns :
    LET found == findFiles(fileSystem, currentPath, startDir, pattern) IN
    found.success =>
      \A itemPath \in found.files :
        \E q \in DescendantsOf(fileSystem, Target(startDir)) : itemPath = AbsolutePath(q)

---------------------------------------------------------------------------
(* C16 *)

\* The glob match of the whole of `chars` from position j against `pattern`
\* from position i: '*' matches any run of characters, '?' exactly one,
\* every other character only itself.
RECURSIVE GlobMatches(_, _, _, _)
GlobMatches(pattern, i, chars, j) ==
  IF i > Len(pattern) THEN j > Len(chars)
  ELSE IF pattern[i] = "*"
  THEN \E k \in j..(Len(chars) + 1) : GlobMatches(pattern, i + 1, chars, k)
  ELSE /\ j <= Len(chars)
       /\ (pattern[i] = "?" \/ pattern[i] = chars[j])
       /\ GlobMatches(pattern, i + 1, chars, j + 1)

\* The probe paths that are canonical absolute paths
CanonicalProbePaths ==
  {p \in ProbePaths : startsWithSlash(p) /\ (p = Root \/ ~endsWithSlash(p))}

\* C16: for every directory, given by its canonical absolute path, and every
\* pattern, findFiles succeeds and returns exactly the paths of the
\* descendants, files and directories at any depth, whose entry name the
\* pattern matches in full as a glob.
C16_FindFilesGlob ==
  \A startDir \in CanonicalProbePaths : \A pattern \in ProbePatterns :
    LET found == findFiles(fileSystem, currentPath, startDir, pattern)
        start == _getNodeAtPath(fileSystem, currentPath, startDir)
    IN (start.success /\ start.node.type = "directory") =>
         /\ found.success
         /\ found.files =
              {AbsolutePath(q) : q \in
                 {d \in DescendantsOf(fileSystem, Target(startDir)) :
                    GlobMatches(pattern, 1, Chars(d[Len(d)]), 1)}}

---------------------------------------------------------------------------
(* C17 *)

\* The call fails and leaves the tree as it was.
FailsWithoutEffect(out) == ~out.result.success /\ out.fileSystem = fileSystem

\* C17: makeDirectory, createFile, writeFile and remove, called with a path
\* that resolves to the root, return an error and leave the tree unchanged.
C17_NoParentOfRoot ==
  \A path \in ProbePaths : \A content \in Contents : \A now \in Readings(clock) :
    ResolvesToRoot(path) =>
      /\ FailsWithoutEffect(makeDirectory(fileSystem, currentPath, path, now))
      /\ FailsWithoutEffect(createFile(fileSystem, currentPath, path, content, now))
      /\ FailsWithoutEffect(writeFile(fileSystem, currentPath, path, content, now, now))
      /\ \A recursive \in BOOLEAN :
           FailsWithoutEffect(remove(fileSystem, currentPath, path, recursive))

---------------------------------------------------------------------------
(* C18 *)

RootIsDirectory(fs) == Has(fs, "/") /\ fs["/"].type = "directory"

\* C18: the root exists and is a directory in every state of a session, and
\* after any further call of makeDirectory, createFile, writeFile, remove
\* (recursive or not), changePermissions or changeDirectory on any path.
C18_RootNeverDestroyed ==
  /\ RootIsDirectory(fileSystem)
  /\ \A path \in ProbePaths : \A content \in Contents : \A now \in Readings(clock) :
       /\ RootIsDirectory(makeDirectory(fileSystem, currentPath, path, now).fileSystem)
       /\ RootIsDirectory(createFile(fileSystem, currentPath, path, content, now).fileSystem)
       /\ RootIsDirectory(writeFile(fileSystem, currentPath, path, content, now, now).fileSystem)
       /\ \A recursive \in BOOLEAN :
            RootIsDirectory(remove(fileSystem, currentPath, path, recursive).fileSystem)
       /\ \A mode \in Modes :
            RootIsDirectory(changePermissions(fileSystem, currentPath, path, mode).fileSystem)
       /\ RootIsDirectory(changeDirectory(fileSystem, currentPath, path).fileSystem)

\* remove('/', recursive = true) has returned success, after createFile('/')
\* had returned success, and the root is still there.
C18_Witness ==
  /\ Succeeded /\ last.op = "remove" /\ last.path = Root /\ last.recursive
  /\ RootIsDirectory(fileSystem)
  /\ DOMAIN fileSystem["/"].children = {"home", "bin", "etc", "tmp"}

---------------------------------------------------------------------------
(* C19 *)

\* A canonical absolute path: '/', or '/' followed by segments separated by
\* single slashes, none of them empty, '.' or '..', and no trailing slash.
Canonical(path) ==
  /\ startsWithSlash(path)
  /\ \/ path = Root
     \/ \A i \in 2..Len(path) : path[i] \notin {"", ".", ".."}

\* C19: every successful changeDirectory(p) leaves a cursor that is a
\* canonical absolute path, both for the call that has just returned and for
\* any call that could follow.
C19_CursorCanonical ==
  /\ (Succeeded /\ last.op = "changeDirectory") => Canonical(currentPath)
  /\ \A path \in ProbePaths :
       LET out == changeDirectory(fileSystem, currentPath, path) IN
       out.result.success => Canonical(out.currentPath)

---------------------------------------------------------------------------
(* C20 *)

\* '..', '../..', ...: the relative path of k '..' segments
Dots(k) == [i \in 1..k |-> ".."]

\* The number of segments of a cursor
Depth(cwd) == Len(splitNonEmpty(cwd))

\* The outcome of n calls changeDirectory('..') in a row, when all succeed;
\* the outcome of the first that fails otherwise.
RECURSIVE UpTimes(_, _, _)
UpTimes(fs, cwd, n) ==
  IF n = 0 THEN Ok(fs, cwd)
  ELSE LET out == changeDirectory(fs, cwd, <<"..">>) IN
       IF out.result.success THEN UpTimes(out.fileSystem, out.currentPath, n - 1)
       ELSE out

\* C20: with the cursor at '/', changeDirectory('..') repeated any number of
\* times returns success and leaves the cursor at '/' and the tree as it
\* was; and a relative path of more '..' segments than the cursor has
\* segments resolves to the root, and changeDirectory to it succeeds with the
\* cursor at '/'.
C20_DotDotAtRoot ==
  /\ currentPath = Root =>
       \A n \in 1..MaxDots : UpTimes(fileSystem, currentPath, n) = Ok(fileSystem, Root)
  /\ \A k \in 1..MaxDots :
       k > Depth(currentPath) =>
         /\ ~_parsePath(currentPath, Dots(k)).threw
         /\ Target(Dots(k)) = <<>>
         /\ changeDirectory(fileSystem, currentPath, Dots(k)) = Ok(fileSystem, Root)

\* changeDirectory('..') has returned success with the cursor at '/' before
\* and after it.
C20_Witness ==
  /\ Succeeded /\ last.op = "changeDirectory" /\ last.path = <<"..">>
  /\ ~last.moved /\ currentPath = Root

---------------------------------------------------------------------------
(* C21 *)

\* The probe paths that are absolute and have no '.' or '..' segment:
\* '/', '/tmp', '/tmp/a', '/tmp/a/b', '/tmp/', '/home/user', ...
PlainAbsoluteProbePaths ==
  {p \in ProbePaths : startsWithSlash(p) /\ \A i \in 1..Len(p) : p[i] \notin {".", ".."}}

\* '/', '/home/user', '/home', '/tmp', '/tmp/', '/tmp/a', '/etc/hostname', '/nowhere'
ProbeCursors ==
  {Root, HomeUser, <<"", "home">>, Tmp, <<"", "tmp", "">>, TmpA,
   <<"", "etc", "hostname">>, <<"", "nowhere">>}

\* Two outcomes with the same result and the same tree
SameResultAndTree(out1, out2) ==
  out1.result = out2.result /\ out1.fileSystem = out2.fileSystem

\* C21: for every absolute path p without '.' and '..' segments and every
\* cursor, resolution yields the segments of p, and every operation on p
\* returns the same result and leaves the same tree (changeDirectory: the
\* same cursor) as it does with the current cursor.
C21_AbsolutePathCursorIndependent ==
  \A p \in PlainAbsoluteProbePaths : \A cwd \in ProbeCursors :
    /\ _parsePath(cwd, p) = [threw |-> FALSE, components |-> splitNonEmpty(p)]
    /\ \A now \in Readings(clock) :
         /\ SameResultAndTree(makeDirectory(fileSystem, cwd, p, now),
                              makeDirectory(fileSystem, currentPath, p, now))
         /\ getFileDetails(fileSystem, cwd, p, now)
              = getFileDetails(fileSystem, currentPath, p, now)
         /\ listDirectory(fileSystem, cwd, p, now)
              = listDirectory(fileSystem, currentPath, p, now)
         /\ \A content \in Contents :
              /\ SameResultAndTree(createFile(fileSystem, cwd, p, content, now),
                                   createFile(fileSystem, currentPath, p, content, now))
              /\ SameResultAndTree(writeFile(fileSystem, cwd, p, content, now, now),
                                   writeFile(fileSystem, currentPath, p, content, now, now))
    /\ \A recursive \in BOOLEAN :
         SameResultAndTree(remove(fileSystem, cwd, p, recursive),
                           remove(fileSystem, currentPath, p, recursive))
    /\ \A mode \in Modes :
         SameResultAndTree(changePermissions(fileSystem, cwd, p, mode),
                           changePermissions(fileSystem, currentPath, p, mode))
    /\ LET out1 == changeDirectory(fileSystem, cwd, p)
           out2 == changeDirectory(fileSystem, currentPath, p)
       IN /\ SameResultAndTree(out1, out2)
          /\ out1.result.success => out1.currentPath = out2.currentPath
    /\ readFile(fileSystem, cwd, p) = readFile(fileSystem, currentPath, p)
    /\ fileExists(fileSystem, cwd, p) = fileExists(fileSystem, currentPath, p)
    /\ \A pattern \in {<<"*">>, <<"l", ".">>} :
         findFiles(fileSystem, cwd, p, pattern) = findFiles(fileSystem, currentPath, p, pattern)

\* makeDirectory('/tmp/a') has created /tmp/a with the cursor at '/home'.
C21_Witness ==
  /\ Succeeded /\ last.op = "makeDirectory" /\ last.path = TmpA
  /\ currentPath = <<"", "home">>
  /\ NodeAt(fileSystem, <<"tmp", "a">>).type = "directory"

---------------------------------------------------------------------------
(* C22 *)

\* The outcomes that the call labelled `call` can have in the current state,
\* one for each reading of the clock.
CallOutcomes(call) ==
  CASE call.op = "makeDirectory" ->
         {makeDirectory(fileSystem, currentPath, call.path, now) : now \in Readings(clock)}
    [] call.op = "createFile" ->
         {createFile(fileSystem, currentPath, call.path, call.content, now)
            : now \in Readings(clock)}
    [] call.op = "writeFile" ->
         UNION {{writeFile(fileSystem, currentPath, call.path, call.content, now1, now2)
                   : now2 \in Readings(now1)} : now1 \in Readings(clock)}
    [] call.op = "remove" ->
         {remove(fileSystem, currentPath, call.path, call.recursive)}
    [] call.op = "changePermissions" ->
         {changePermissions(fileSystem, currentPath, call.path, call.permissions)}
    [] call.op = "changeDirectory" ->
         {changeDirectory(fileSystem, currentPath, call.path)}

\* One step: a mutating call returns success while the write of its save fails.
SucceedsUnsaved ==
  /\ last'.op \in MutatingOps
  /\ last'.result.success
  /\ ~last'.stored

\* C22: when the storage write fails in the save that follows a successful
\* makeDirectory, createFile, writeFile, remove, changePermissions or
\* changeDirectory, the call has returned success, the tree and the cursor
\* in memory are the ones the call produced, and the stored item is the one
\* that was stored before the call.
C22_FailedSaveKeepsMutation ==
  [][SucceedsUnsaved =>
       /\ storage' = storage
       /\ \E out \in CallOutcomes(last') :
            /\ out.result.success
            /\ fileSystem' = out.fileSystem
            /\ currentPath' = out.currentPath]_vars

\* makeDirectory('/tmp/a') has returned success while its save failed, after
\* an earlier call was saved: /tmp/a is in memory and not in the stored item.
C22_Witness ==
  /\ Succeeded /\ last.op = "makeDirectory" /\ ~last.stored
  /\ NodeAt(fileSystem, <<"tmp", "a">>).type = "directory"
  /\ storage # Absent
  /\ ~Has(storage.data.fileSystem["/"].children.tmp.children, "a")

---------------------------------------------------------------------------
(* C23 *)

\* After a successful 'mv source destination', readFile(destination)
\* returns the content that readFile(source) returned before it.
MvKeepsContent(source, destination, now) ==
  \A before \in {readFile(fileSystem, currentPath, source)} :
    \A out \in {handleMv(fileSystem, currentPath, source, destination, now)} :
      out.result.success =>
        readFile(out.fileSystem, out.currentPath, destination)
          = [success |-> TRUE, content |-> before.content]

\* C23: whenever 'mv source destination' returns success, for any two path
\* arguments, readFile(destination) afterwards returns the content that
\* source held before; and a destination that mv has just moved a file to
\* is a file.
C23_MvNeverLosesFile ==
  /\ \A source \in ProbePaths \cup {TmpB} : \A destination \in ProbePaths \cup {TmpB} :
       \A now \in Readings(clock) : MvKeepsContent(source, destination, now)
  /\ (Succeeded /\ last.op = "mv") =>
       readFile(fileSystem, currentPath, last.destination).success

---------------------------------------------------------------------------
(* C24 *)

\* '/home/user/../user', '/home/./user', '~/..', '/tmp/..', '/./tmp'
DottedProbePaths ==
  {<<"", "home", "user", "..", "user">>, <<"", "home", ".", "user">>, <<"~", "..">>,
   <<"", "tmp", "..">>, <<"", ".", "tmp">>}

\* The component list of `path` with '.' dropped and '..' dropping the
\* component before it.
RECURSIVE Normalized(_, _)
Normalized(done, rest) ==
  IF rest = <<>> THEN done
  ELSE IF Head(rest) = "." THEN Normalized(done, Tail(rest))
  ELSE IF Head(rest) = ".." THEN Normalized(IF done = <<>> THEN <<>> ELSE Pop(done), Tail(rest))
  ELSE Normalized(done \o <<Head(rest)>>, Tail(rest))

\* C24: the component list that resolution produces for a path, relative,
\* absolute or starting with '~', has no '.' and no '..' component, and the
\* path resolves to the same node as its normalized form.
C24_ResolutionIsCanonical ==
  \A path \in ProbePaths \cup DottedProbePaths :
    LET parsed == _parsePath(currentPath, path) IN
    ~parsed.threw =>
      /\ \A i \in 1..Len(parsed.components) : parsed.components[i] \notin {".", ".."}
      /\ _getNodeAtPath(fileSystem, currentPath, path)
           = _getNodeAtPath(fileSystem, currentPath,
                            AbsolutePath(Normalized(<<>>, parsed.components)))

---------------------------------------------------------------------------
(* C25 *)

\* '.', '..', '', 'a', 'a/', 'a/b', './/a', 'a/./b/..', '../../tmp/a',
\* '.././tmp//a', '../../../..', '../tmp/../tmp/a'
RelativeProbePaths ==
  {<<".">>, <<"..">>, <<"">>, <<"a">>, <<"a", "">>, <<"a", "b">>, <<".", "", "a">>,
   <<"a", ".", "b", "..">>, UpUpTmpA, UpDotTmpA, <<"..", "..", "..", "..">>,
   <<"..", "tmp", "..", "tmp", "a">>}

\* The segments processed left to right from the component list `at`: '.'
\* and empty change nothing, '..' drops the last component and is a no-op
\* at the root, a name is appended.
RECURSIVE LeftToRight(_, _)
LeftToRight(at, segments) ==
  IF segments = <<>> THEN at
  ELSE LET segment == Head(segments) IN
       LeftToRight(IF segment \in {"", "."} THEN at
                   ELSE IF segment = ".." THEN (IF at = <<>> THEN <<>> ELSE Pop(at))
                   ELSE at \o <<segment>>,
                   Tail(segments))

\* changeDirectory(d) then makeDirectory(name), when both succeed, create the
\* directory d/name, and listDirectory('.') lists it.
CreatesInCursor(d, name, now) ==
  LET moved == changeDirectory(fileSystem, currentPath, d)
      made == makeDirectory(moved.fileSystem, moved.currentPath, <<name>>, now)
      to == _getNodeAtPath(fileSystem, currentPath, d)
      listed == listDirectory(made.fileSystem, made.currentPath, <<".">>, now)
  IN (moved.result.success /\ made.result.success) =>
       /\ ~Has(NodeAt(fileSystem, to.at).children, name)
       /\ NodeAt(made.fileSystem, to.at \o <<name>>).type = "directory"
       /\ \A q \in AllPaths(made.fileSystem) :
            q \in AllPaths(fileSystem) \/ q = to.at \o <<name>>
       /\ listed.success
       /\ DOMAIN listed.files = DOMAIN NodeAt(fileSystem, to.at).children \cup {name}

\* C25: a relative path of names, '.', '..' and empty segments resolves to
\* the component list obtained by processing its segments left to right from
\* the cursor; and after changeDirectory(d), makeDirectory(name) creates
\* d/name and listDirectory('.') lists it.
C25_RelativeResolution ==
  /\ \A path \in RelativeProbePaths :
       _parsePath(currentPath, path)
         = [threw |-> FALSE,
            components |-> LeftToRight(splitNonEmpty(currentPath), path)]
  /\ \A d \in ProbePaths \cup RelativeProbePaths : \A name \in {"a", "b"} :
       \A now \in Readings(clock) : CreatesInCursor(d, name, now)

\* listDirectory('.') with the cursor at '/home' lists 'a', which only
\* makeDirectory('a') with the cursor there can have created.
C25_Witness ==
  /\ Succeeded /\ last.op = "listDirectory" /\ last.path = <<".">>
  /\ currentPath = <<"", "home">>
  /\ DOMAIN last.result.files = {"user", "a"}
  /\ NodeAt(fileSystem, <<"home", "a">>).type = "directory"

---------------------------------------------------------------------------
(* C26 *)

\* The directory at `components` and all its descendants are still there in
\* `fs`, each of the type it has now.
SubtreeSurvives(fs, components) ==
  /\ NodeAt(fs, components).type = "directory"
  /\ \A q \in DescendantsOf(fileSystem, components) :
       q \in AllPaths(fs) /\ NodeAt(fs, q).type = NodeAt(fileSystem, q).type

\* C26: createFile and writeFile on a path that names an existing directory
\* delete neither that directory nor any of its descendants.
C26_OnlyRemoveDestroysDirectory ==
  \A path \in ProbePaths : \A content \in Contents : \A now \in Readings(clock) :
    LET before == _getNodeAtPath(fileSystem, currentPath, path) IN
    (before.success /\ before.node.type = "directory") =>
      /\ SubtreeSurvives(createFile(fileSystem, currentPath, path, content, now).fileSystem,
                         before.at)
      /\ SubtreeSurvives(writeFile(fileSystem, currentPath, path, content, now, now).fileSystem,
                         before.at)

---------------------------------------------------------------------------
(* C27 *)

\* The node has a size, which is the length of its content for a file and 0
\* for a directory.
SizeIsRight(node) ==
  /\ Has(node, "size")
  /\ node.type = "file" => node.size = Len(node.content)
  /\ node.type = "directory" => node.size = 0

\* C27: in every reachable state every file has a size field equal to the
\* length of its content and every directory has size 0.
C27_SizeInvariant ==
  \A q \in AllPaths(fileSystem) : q # <<>> => SizeIsRight(NodeAt(fileSystem, q))

---------------------------------------------------------------------------
(* C28 *)

QueryOps ==
  {"listDirectory", "readFile", "findFiles", "fileExists", "getFileDetails",
   "getCurrentDirectory"}

\* C28: a call of any method other than changeDirectory leaves the cursor
\* as it was, whether it succeeds or fails; and a call of listDirectory,
\* readFile, findFiles, fileExists, getFileDetails or getCurrentDirectory
\* leaves the tree and the stored item as they were, too.
C28_OnlyChangeDirectoryMovesCursor ==
  [][/\ last'.op \in (MutatingOps \cup QueryOps) \ {"changeDirectory"} =>
          currentPath' = currentPath
     /\ last'.op \in QueryOps =>
          fileSystem' = fileSystem /\ storage' = storage]_vars

\* listDirectory('/tmp') has returned the entry 'a' with the cursor at
\* '/tmp/a', where an earlier changeDirectory had put it.
C28_Witness ==
  /\ Succeeded /\ last.op = "listDirectory" /\ last.path = Tmp
  /\ DOMAIN last.result.files = {"a"}
  /\ currentPath = TmpA

---------------------------------------------------------------------------
(* C29 *)

\* C29: a call of makeDirectory, createFile, writeFile, remove,
\* changePermissions or changeDirectory that returns success false leaves
\* the tree, the cursor and the stored item exactly as they were.
C29_FailureHasNoEffect ==
  [][(last'.op \in MutatingOps /\ ~last'.result.success) =>
       /\ fileSystem' = fileSystem
       /\ currentPath' = currentPath
       /\ storage' = storage]_vars

\* changePermissions('/tmp/a/b', 'rwx') has failed on an existing file, which
\* has the permissions it was created with, and the stored item is the save
\* of the tree in memory.
C29_Witness ==
  /\ last.op = "changePermissions" /\ ~last.result.success
  /\ last.path = TmpAB /\ last.permissions = <<"r", "w", "x">>
  /\ last.result = InvalidPermissionFormat
  /\ NodeAt(fileSystem, <<"tmp", "a", "b">>).permissions = rwDashRDashRDash
  /\ storage = _saveToLocalStorage(fileSystem, currentPath)

---------------------------------------------------------------------------
(* SpecProcesses: the process manager from its construction, with processes *)
(* created and killed while the timer runs the scheduler.  FairProcesses    *)
(* adds that the scheduler's timer keeps firing (stopScheduler has no       *)
(* caller) and that the draw rand < 0.2, made anew at every firing for each *)
(* zombie the loop reaches, does not fail for ever.                         *)

ProcessNames == {"sleep", "httpd"}

Pids == {1, 2, 3, 7, 345, 346} \cup {FirstPid + k : k \in 0..(MaxCreated - 1)}

NextProcesses ==
  \/ \E name \in ProcessNames : CreateProcess(name)
  \/ \E pid \in Pids : KillProcess(pid)
  \/ ScheduleProcesses

SpecProcesses == Init /\ [][NextProcesses]_vars

ListedIn(procs, pid) == findIndex(procs, pid) # 0

StateIn(procs, pid) == procs[findIndex(procs, pid)].state

IsZombie(procs, pid) ==
  ListedIn(procs, pid) /\ StateIn(procs, pid) = PROCESS_STATES.ZOMBIE

\* A run of the scheduler in which the cleanup branch is taken for pid
CleanUp(pid) ==
  /\ IsZombie(processes, pid)
  /\ ScheduleProcesses
  /\ ~ListedIn(processes', pid)

FairProcesses ==
  /\ SpecProcesses
  /\ WF_vars(ScheduleProcesses)
  /\ \A pid \in Pids : WF_vars(CleanUp(pid))

---------------------------------------------------------------------------
(* C30 *)

\* C30: every process that killProcess has made a zombie, whatever its pid,
\* is eventually off the process list, and as long as it is on the list it
\* stays a zombie: it is never running or sleeping again.
C30_ZombiesEventuallyReaped ==
  /\ \A pid \in Pids : IsZombie(processes, pid) ~> ~ListedIn(processes, pid)
  /\ [][\A pid \in Pids :
          (IsZombie(processes, pid) /\ ListedIn(processes', pid)) =>
            IsZombie(processes', pid)]_vars

\* The part of C30 that the code keeps: a zombie that the scheduler's loop
\* reaches (pid 10 or more) is eventually off the list, and a zombie stays a
\* zombie while it is listed.
C30_ReachedZombiesReaped ==
  /\ \A pid \in Pids :
       (pid >= KernelPids /\ IsZombie(processes, pid)) ~> ~ListedIn(processes, pid)
  /\ [][\A pid \in Pids :
          (IsZombie(processes, pid) /\ ListedIn(processes', pid)) =>
            IsZombie(processes', pid)]_vars

\* killProcess(2) has made its child 3 a zombie.
C30_KernelZombie == IsZombie(processes, 3) /\ ~ListedIn(processes, 2)

\* killProcess(345) has made its child 346 a zombie.
C30_UserZombie == IsZombie(processes, 346) /\ ~ListedIn(processes, 345)

====
